---- MODULE Spec2Model ----
(***************************************************************************)
(* Group-membership engine of the secure group messaging API               *)
(* (src/src/controllers/groupController.js) over its Mongoose models.      *)
(*                                                                         *)
(* Every handler is an async function: each `await` on the store is a      *)
(* suspension point.  A handler is modelled as a step function over        *)
(* (store, request): one step per awaited store call, the synchronous code *)
(* up to the next await being part of the step.  Spec runs each handler to *)
(* completion before the next starts; ConcSpec interleaves the steps of    *)
(* several requests in flight.                                             *)
(*                                                                         *)
(* Time is counted in minutes (Date.now() / 60000).                        *)
(*                                                                         *)
(* Spec, ConcSpec, PairSpec and RejoinSpec follow one group from its       *)
(* creation: the membership handlers read and write one group document per *)
(* call, and no handler relates two groups.  Group id 1 is that group; id  *)
(* 2 is a well-formed id naming no group.  MsgSpec, the message log, has   *)
(* two groups, 1 and 2.                                                    *)
(***************************************************************************)
EXTENDS Integers, Sequences, FiniteSets, TLC

VARIABLES groups, nGroups, joinRequests, leaveHistory, invites, nInvites,
          messages, now, reqs, writes, plaintexts

vars == <<groups, nGroups, joinRequests, leaveHistory, invites, nInvites,
          messages, now, reqs, writes, plaintexts>>

\* groups, joinRequests, leaveHistory, invites, messages: the collections of
\* the store (messages in insertion order, a message's id being its place).
\* nGroups, nInvites: how many group ids and invite tokens have been
\* handed out (ids are never reused).  now: the clock.  reqs: the requests
\* in flight (ConcSpec).  writes: how many handled requests have changed the
\* store so far (Spec), which MaxWrites bounds.  plaintexts: a history
\* variable no handler reads, the text each stored message was sent with.

(***************************************************************************)
(* Bounds of the model.                                                    *)
(***************************************************************************)
MaxWrites == 4
MaxInvites == 1
MaxLeaves == 2
MaxTicks == 2
MaxInFlight == 3
MaxMessages == 2

(***************************************************************************)
(* Program constants.                                                      *)
(***************************************************************************)
COOLDOWN_HOURS == 48
DefaultMaxUses == 1

TickMinutes == (COOLDOWN_HOURS * 60) \div 2

(***************************************************************************)
(* Identities.  Users are the registered accounts; Ghost is a well-formed  *)
(* ObjectId that references no user.  An id travels in request bodies as a *)
(* string: the same ObjectId has a lower-case hex spelling (the one        *)
(* ObjectId.toString() and the JWT subject give) and an upper-case one,    *)
(* which are different strings that cast to the same ObjectId.             *)
(***************************************************************************)
Users == {"A", "B", "C"}
\* The users are interchangeable, so one of them creates the groups; any of
\* them can own one after a transfer.
Creators == {"A"}
Ghost == "Z"
ObjectIds == Users \cup {Ghost}

Malformed == <<"?", "malformed">>
EmptyStr == <<"", "empty">>
IdStrings == (ObjectIds \X {"lower", "upper"}) \cup {Malformed, EmptyStr}

toString(oid) == <<oid, "lower">>
isValidObjectId(s) == s[2] \in {"lower", "upper"}
CastObjectId(s) == s[1]

Null == [isNull |-> TRUE]

Max_Second(a, b) == b
Max(a, b) == IF a > b THEN a ELSE b

Range(s) == {s[i] : i \in 1..Len(s)}
Contains(s, x) == \E i \in 1..Len(s) : s[i] = x

\* Array.prototype.filter(m => m !== x)
RECURSIVE Without(_, _)
Without(s, x) ==
  IF s = <<>> THEN <<>>
  ELSE IF Head(s) = x THEN Without(Tail(s), x)
       ELSE <<Head(s)>> \o Without(Tail(s), x)

\* findIndex + splice(idx, 1): drops the first occurrence only
RECURSIVE SpliceFirst(_, _)
SpliceFirst(s, x) ==
  IF s = <<>> THEN <<>>
  ELSE IF Head(s) = x THEN Tail(s)
       ELSE <<Head(s)>> \o SpliceFirst(Tail(s), x)

\* [...new Set(ids)]: first occurrences, in order
RECURSIVE Dedupe(_)
Dedupe(s) ==
  IF s = <<>> THEN <<>>
  ELSE <<Head(s)>> \o Dedupe(Without(Tail(s), Head(s)))

RECURSIVE MapCast(_)
MapCast(s) ==
  IF s = <<>> THEN <<>> ELSE <<CastObjectId(Head(s))>> \o MapCast(Tail(s))

\* $addToSet
AddToSet(s, x) == IF Contains(s, x) THEN s ELSE Append(s, x)

(***************************************************************************)
(* The store.                                                              *)
(***************************************************************************)
Store == [groups |-> groups, nGroups |-> nGroups,
          joinRequests |-> joinRequests, leaveHistory |-> leaveHistory,
          invites |-> invites, nInvites |-> nInvites, messages |-> messages]

\* A response: HTTP status, the message / error text, and the extra field
\* some responses carry (the resolved status of a 409).
RespInfo(status, msg, info) == [status |-> status, msg |-> msg, info |-> info]
Resp(status, msg) == RespInfo(status, msg, "")
NoResp == Resp(0, "")

BlankReq ==
  [k |-> 0, op |-> "", user |-> "", gid |-> 0, userId |-> EmptyStr, rid |-> <<0, "", 0>>,
   decision |-> "", token |-> 0, type |-> "", maxMembers |-> 0,
   initialMemberIds |-> <<>>, maxUses |-> 0, expiresInMinutes |-> 0,
   text |-> <<>>, iv |-> 0, hasSince |-> FALSE, since |-> 0,
   out |-> <<>>, newMessages |-> 0, lastChecked |-> 0, requests |-> {},
   pc |-> "start", group |-> Null, jr |-> Null, invite |-> Null,
   vCurrent |-> TRUE, res |-> NoResp]

\* The fields of a request are k, its place in the list of requests ConcSpec
\* draws from; its inputs (op .. expiresInMinutes, and text .. since for the
\* message handlers, iv being the random IV the codec draws); out, newMessages
\* and lastChecked, the bodies of the message handlers' answers; requests,
\* the body of listJoinRequests' answer; and the
\* handler's locals: pc, the position (the store call it awaits next); group,
\* jr, invite, the documents it has loaded; vCurrent, whether the loaded
\* group's version key __v still equals the stored one (Mongoose puts __v in
\* the filter of a save that rewrites an array, so the save matches nothing
\* when vCurrent is false); res, the response once pc = "done".

Done(rq, status, msg) == [rq EXCEPT !.pc = "done", !.res = Resp(status, msg)]

\* Outcome of one step: the store after it, the request after it, and the
\* groups whose version key (__v) the step incremented.
Out(db, rq, bumped) == [db |-> db, rq |-> rq, bumped |-> bumped]

\* A failed save: the error reaches errorHandler, which answers err.status || 500.
Thrown(rq, msg) == Done(rq, 500, msg)

\* group.members.some(m => m.toString() === req.user.id)
isMember_Never(group, uid) == FALSE
isMember_Always(group, uid) == TRUE
isMember(group, uid) == Contains(group.members, uid)

\* group.bannedUsers.some(u => u.toString() === req.user.id)
isBanned_Never(group, uid) == FALSE
isBanned_Always(group, uid) == TRUE
isBanned(group, uid) == Contains(group.bannedUsers, uid)

\* group.owner.toString() === req.user.id
isOwner_Never(group, uid) == FALSE
isOwner_Always(group, uid) == TRUE
isOwner(group, uid) == group.owner = uid

\* group.members.length > 1
hasOtherMembers_OffByOne(group) == Len(group.members) > 2
hasOtherMembers(group) == Len(group.members) > 1

\* Group.findById
findGroup(db, gid) ==
  IF gid \in DOMAIN db.groups THEN db.groups[gid] ELSE Null

\* Capacity helper: 0 => unlimited, else hard cap.
capacityOk_OffByOne(group) ==
  group.maxMembers = 0 \/ Len(group.members) <= group.maxMembers
capacityOk(group) ==
  group.maxMembers = 0 \/ Len(group.members) < group.maxMembers

\* JoinRequest.findOne({group, user})
findJoinRequest(db, gid, uid) ==
  LET m == {j \in db.joinRequests : j.group = gid /\ j.user = uid}
  IN IF m = {} THEN Null ELSE CHOOSE j \in m : TRUE

\* The _id of a new JoinRequest document: one no other document has.  It is
\* written <<group, user, k>>, the k-th document inserted for the pair.
NewRequestId(db, gid, uid) ==
  <<gid, uid, 1 + Cardinality({j \in db.joinRequests :
                                 j.group = gid /\ j.user = uid})>>

\* JoinRequest.findOneAndUpdate({group, user}, {$set: {status: 'pending'}},
\*                              {upsert: true})
upsertPending_AlwaysInsert(db, gid, uid) ==
  [db EXCEPT !.joinRequests = @ \cup
     {[id |-> NewRequestId(db, gid, uid), group |-> gid,
       user |-> uid, status |-> "pending"]}]
upsertPending_InsertOnly(db, gid, uid) ==
  IF findJoinRequest(db, gid, uid) # Null THEN db
  ELSE [db EXCEPT !.joinRequests = @ \cup
          {[id |-> NewRequestId(db, gid, uid), group |-> gid,
            user |-> uid, status |-> "pending"]}]
upsertPending(db, gid, uid) ==
  LET old == findJoinRequest(db, gid, uid)
  IN IF old = Null
     THEN [db EXCEPT !.joinRequests = @ \cup
             {[id |-> NewRequestId(db, gid, uid), group |-> gid,
               user |-> uid, status |-> "pending"]}]
     ELSE [db EXCEPT !.joinRequests = (@ \ {old}) \cup
             {[old EXCEPT !.status = "pending"]}]

(***************************************************************************)
(* POST /groups                                                            *)
(***************************************************************************)
createGroup(db, rq, t) ==
  LET ownerId == toString(rq.user)
      uniqueIds == Dedupe(SelectSeq(rq.initialMemberIds,
                     LAMBDA id : id # EmptyStr /\ id # ownerId))
      total == 1 + Len(uniqueIds)
      gid == db.nGroups + 1
  IN IF ~(rq.type \in {"private", "open"}
          /\ (rq.maxMembers = 0 \/ rq.maxMembers >= 2))
     THEN Out(db, Done(rq, 400, "Validation failed"), {})
     ELSE IF \E i \in 1..Len(uniqueIds) : ~isValidObjectId(uniqueIds[i])
     THEN Out(db, Done(rq, 400, "Invalid userId in initialMemberIds"), {})
     ELSE IF rq.maxMembers # 0 /\ total > rq.maxMembers
     THEN Out(db, Done(rq, 400, "Too many initial members for this group capacity"), {})
     ELSE Out([db EXCEPT
                 !.nGroups = gid,
                 !.groups = (gid :> [type |-> rq.type,
                                     owner |-> rq.user,
                                     maxMembers |-> rq.maxMembers,
                                     members |-> <<rq.user>> \o MapCast(uniqueIds),
                                     bannedUsers |-> <<>>]) @@ @],
              [Done(rq, 201, "Created") EXCEPT !.gid = gid], {})

(***************************************************************************)
(* ensureNotBanned, second half: the upsert a banned caller triggers, then *)
(* the 403 it throws.                                                      *)
(***************************************************************************)
ensureNotBanned(db, rq) ==
  Out(upsertPending(db, rq.gid, rq.user),
      Done(rq, 403, "You are banned. A join request is now pending for owner approval."),
      {})

(***************************************************************************)
(* POST /groups/:groupId/join-open                                         *)
(***************************************************************************)
joinOpenGroup(db, rq, t) ==
  CASE rq.pc = "start" ->
         LET group == findGroup(db, rq.gid)
             r1 == [rq EXCEPT !.group = group, !.vCurrent = TRUE]
         IN IF group = Null \/ group.type # "open"
            THEN Out(db, Done(r1, 404, "Group not found or not open"), {})
            ELSE IF isBanned(group, rq.user)
            THEN Out(db, [r1 EXCEPT !.pc = "banUpsert"], {})
            ELSE IF isMember(group, rq.user)
            THEN Out(db, Done(r1, 200, "Already a member"), {})
            ELSE IF ~capacityOk(group)
            THEN Out(db, Done(r1, 400, "Group is full"), {})
            ELSE Out(db, [r1 EXCEPT !.pc = "saveGroup"], {})
    [] rq.pc = "banUpsert" -> ensureNotBanned(db, rq)
    [] rq.pc = "saveGroup" ->
         \* group.members.push(id); save(): {$push: members, $inc: __v}
         IF rq.gid \notin DOMAIN db.groups
         THEN Out(db, Thrown(rq, "DocumentNotFoundError"), {})
         ELSE Out([db EXCEPT !.groups[rq.gid].members = Append(@, rq.user)],
                  Done(rq, 200, "Joined"), {rq.gid})

\* LeaveHistory.findOne({group, user}).sort({leftAt: -1})
lastLeave(db, gid, uid) ==
  LET idx == {i \in 1..Len(db.leaveHistory) :
                db.leaveHistory[i].group = gid /\ db.leaveHistory[i].user = uid}
  IN IF idx = {} THEN Null
     ELSE db.leaveHistory[CHOOSE i \in idx :
            \A j \in idx : db.leaveHistory[j].leftAt <= db.leaveHistory[i].leftAt]

\* hours < COOLDOWN_HOURS, with hours = (Date.now() - leftAt) / 36e5
cooldownActive_Inclusive(leave, t) == (t - leave.leftAt) <= COOLDOWN_HOURS * 60
cooldownActive(leave, t) == (t - leave.leftAt) < COOLDOWN_HOURS * 60

(***************************************************************************)
(* POST /groups/:groupId/request-join                                      *)
(***************************************************************************)
requestJoinPrivate(db, rq, t) ==
  CASE rq.pc = "start" ->
         LET group == findGroup(db, rq.gid)
             r1 == [rq EXCEPT !.group = group, !.vCurrent = TRUE]
         IN IF group = Null \/ group.type # "private"
            THEN Out(db, Done(r1, 404, "Group not found or not private"), {})
            ELSE IF isMember(group, rq.user)
            THEN Out(db, Done(r1, 200, "Already a member"), {})
            ELSE IF isBanned(group, rq.user)
            THEN Out(db, [r1 EXCEPT !.pc = "banUpsert"], {})
            ELSE Out(db, [r1 EXCEPT !.pc = "findLeave"], {})
    [] rq.pc = "banUpsert" -> ensureNotBanned(db, rq)
    [] rq.pc = "findLeave" ->
         LET leave == lastLeave(db, rq.gid, rq.user)
         IN IF leave # Null /\ cooldownActive(leave, t)
            THEN Out(db, Done(rq, 400, "Cooldown active"), {})
            ELSE Out(db, [rq EXCEPT !.pc = "findRequest"], {})
    [] rq.pc = "findRequest" ->
         LET existing == findJoinRequest(db, rq.gid, rq.user)
         IN IF existing # Null /\ existing.status = "pending"
            THEN Out(db, [Done(rq, 200, "Join request already submitted")
                            EXCEPT !.rid = existing.id], {})
            ELSE Out(db, [rq EXCEPT !.pc = "upsert"], {})
    [] rq.pc = "upsert" ->
         LET db1 == upsertPending(db, rq.gid, rq.user)
         IN Out(db1, [Done(rq, 200, "Join request submitted")
                        EXCEPT !.rid = findJoinRequest(db1, rq.gid, rq.user).id], {})

\* JoinRequest.findById
findJoinRequestById(db, rid) ==
  LET m == {j \in db.joinRequests : j.id = rid}
  IN IF m = {} THEN Null ELSE CHOOSE j \in m : TRUE

\* jr.save() after jr.status was assigned: {$set: {status}} on that _id
saveJoinRequestStatus(db, rid, status) ==
  [db EXCEPT !.joinRequests =
     {IF j.id = rid THEN [j EXCEPT !.status = status] ELSE j : j \in @}]

\* Group.updateOne({_id}, {$pull: {bannedUsers: u}, $addToSet: {members: u}})
\* One atomic update; it matches nothing when the group is gone, and it
\* leaves __v alone.
unbanAndAdd_NoPull(db, gid, uid) ==
  IF gid \notin DOMAIN db.groups THEN db
  ELSE [db EXCEPT !.groups[gid].members = AddToSet(@, uid)]
unbanAndAdd(db, gid, uid) ==
  IF gid \notin DOMAIN db.groups THEN db
  ELSE [db EXCEPT !.groups[gid].bannedUsers = Without(@, uid),
                  !.groups[gid].members = AddToSet(@, uid)]

(***************************************************************************)
(* GET /groups/:groupId/requests                                           *)
(* The answer is modelled as the set of the pending requests; their order  *)
(* (createdAt descending) is not.                                          *)
(***************************************************************************)
listJoinRequests(db, rq, t) ==
  CASE rq.pc = "start" ->
         LET group == findGroup(db, rq.gid)
             r1 == [rq EXCEPT !.group = group, !.vCurrent = TRUE]
         IN IF group = Null
            THEN Out(db, Done(r1, 404, "Group not found"), {})
            ELSE IF ~isOwner(group, rq.user)
            THEN Out(db, Done(r1, 403, "Only owner"), {})
            ELSE Out(db, [r1 EXCEPT !.pc = "find"], {})
    [] rq.pc = "find" ->
         \* JoinRequest.find({group, status: 'pending'})
         Out(db, [Done(rq, 200, "") EXCEPT !.requests =
                    {j \in db.joinRequests :
                       j.group = rq.gid /\ j.status = "pending"}], {})

\* jr.status !== 'pending'
isResolved_Never(jr) == FALSE
isResolved(jr) == jr.status # "pending"

(***************************************************************************)
(* POST /groups/requests/:requestId/decision                               *)
(***************************************************************************)
decideJoinRequest(db, rq, t) ==
  CASE rq.pc = "start" ->
         IF rq.decision \notin {"approve", "decline"}
         THEN Out(db, Done(rq, 400, "Invalid decision"), {})
         ELSE LET jr == findJoinRequestById(db, rq.rid)
              IN IF jr = Null
                 THEN Out(db, Done(rq, 404, "Request not found"), {})
                 ELSE Out(db, [rq EXCEPT !.jr = jr, !.gid = jr.group,
                                         !.pc = "findGroup"], {})
    [] rq.pc = "findGroup" ->
         LET group == findGroup(db, rq.jr.group)
             r1 == [rq EXCEPT !.group = group, !.vCurrent = TRUE]
         IN IF group = Null
            THEN Out(db, Done(r1, 404, "Group not found"), {})
            ELSE IF ~isOwner(group, rq.user)
            THEN Out(db, Done(r1, 403, "Only owner"), {})
            ELSE IF isResolved(rq.jr)
            THEN Out(db, [r1 EXCEPT !.pc = "done",
                            !.res = RespInfo(409, "Request already resolved",
                                             rq.jr.status)], {})
            ELSE IF rq.decision = "approve"
            THEN IF ~capacityOk(group)
                 THEN Out(db, Done(r1, 400, "Group is full"), {})
                 ELSE Out(db, [r1 EXCEPT !.pc = "updateGroup"], {})
            ELSE Out(db, [r1 EXCEPT !.jr.status = "declined",
                                    !.pc = "saveRequest"], {})
    [] rq.pc = "updateGroup" ->
         Out(unbanAndAdd(db, rq.jr.group, rq.jr.user),
             [rq EXCEPT !.jr.status = "approved", !.pc = "saveRequest"], {})
    [] rq.pc = "saveRequest" ->
         Out(saveJoinRequestStatus(db, rq.jr.id, rq.jr.status),
             [rq EXCEPT !.pc = "done",
                !.res = RespInfo(200, "Decision recorded", rq.jr.status)], {})

(***************************************************************************)
(* POST /groups/:groupId/leave                                             *)
(***************************************************************************)
leaveGroup(db, rq, t) ==
  CASE rq.pc = "start" ->
         LET group == findGroup(db, rq.gid)
             r1 == [rq EXCEPT !.group = group, !.vCurrent = TRUE]
         IN IF group = Null
            THEN Out(db, Done(r1, 404, "Group not found"), {})
            ELSE IF ~isMember(group, rq.user)
            THEN Out(db, Done(r1, 400, "Not a member"), {})
            ELSE IF isOwner(group, rq.user)
            THEN Out(db, Done(r1, 400, "Owner must transfer ownership before leaving"), {})
            ELSE Out(db, [r1 EXCEPT !.pc = "saveGroup"], {})
    [] rq.pc = "saveGroup" ->
         \* group.members.splice(idx, 1); save():
         \* {$set: {members: <loaded array less one entry>}, $inc: __v}
         \* filtered on the loaded __v
         IF rq.gid \notin DOMAIN db.groups \/ ~rq.vCurrent
         THEN Out(db, Thrown(rq, "VersionError"), {})
         ELSE Out([db EXCEPT !.groups[rq.gid].members =
                                 SpliceFirst(rq.group.members, rq.user)],
                  IF rq.group.type = "private"
                  THEN [rq EXCEPT !.pc = "createLeave"]
                  ELSE Done(rq, 200, "Left group"),
                  {rq.gid})
    [] rq.pc = "createLeave" ->
         Out([db EXCEPT !.leaveHistory =
                Append(@, [group |-> rq.gid, user |-> rq.user, leftAt |-> t])],
             Done(rq, 200, "Left group"), {})

(***************************************************************************)
(* POST /groups/:groupId/banish                                            *)
(***************************************************************************)
banishMember(db, rq, t) ==
  CASE rq.pc = "start" ->
         IF ~isValidObjectId(rq.userId)
         THEN Out(db, Done(rq, 400, "Invalid userId"), {})
         ELSE
         LET group == findGroup(db, rq.gid)
             r1 == [rq EXCEPT !.group = group, !.vCurrent = TRUE]
             \* members.some(m => m.toString() === userId)
             member == \E i \in 1..Len(group.members) :
                          toString(group.members[i]) = rq.userId
             banned == \E i \in 1..Len(group.bannedUsers) :
                          toString(group.bannedUsers[i]) = rq.userId
         IN IF group = Null
            THEN Out(db, Done(r1, 404, "Group not found"), {})
            ELSE IF ~isOwner(group, rq.user)
            THEN Out(db, Done(r1, 403, "Only owner"), {})
            ELSE IF rq.userId = toString(rq.user)
            THEN Out(db, Done(r1, 400, "Owner cannot banish self"), {})
            ELSE IF banned
            THEN Out(db, Done(r1, 200, "User is already banned"), {})
            ELSE IF ~member
            THEN Out(db, Done(r1, 400, "User is not a current member"), {})
            ELSE Out(db, [r1 EXCEPT !.pc = "saveGroup"], {})
    [] rq.pc = "saveGroup" ->
         \* group.members = members.filter(..); group.bannedUsers.push(userId);
         \* save(): {$set: {members: <loaded array filtered>},
         \*          $push: {bannedUsers}, $inc: __v} filtered on the loaded __v
         IF rq.gid \notin DOMAIN db.groups \/ ~rq.vCurrent
         THEN Out(db, Thrown(rq, "VersionError"), {})
         ELSE Out([db EXCEPT
                     !.groups[rq.gid].members =
                        Without(rq.group.members, CastObjectId(rq.userId)),
                     !.groups[rq.gid].bannedUsers =
                        Append(@, CastObjectId(rq.userId))],
                  Done(rq, 200, "User banished"), {rq.gid})

(***************************************************************************)
(* POST /groups/:groupId/transfer                                          *)
(***************************************************************************)
transferOwnership(db, rq, t) ==
  CASE rq.pc = "start" ->
         LET group == findGroup(db, rq.gid)
             r1 == [rq EXCEPT !.group = group, !.vCurrent = TRUE]
         IN IF group = Null
            THEN Out(db, Done(r1, 404, "Group not found"), {})
            ELSE IF ~isOwner(group, rq.user)
            THEN Out(db, Done(r1, 403, "Only owner"), {})
            ELSE IF ~isValidObjectId(rq.userId)
            THEN Out(db, Done(r1, 400, "Invalid newOwnerId"), {})
            ELSE IF ~\E i \in 1..Len(group.members) :
                       toString(group.members[i]) = rq.userId
            THEN Out(db, Done(r1, 400, "New owner must be a member"), {})
            ELSE Out(db, [r1 EXCEPT !.pc = "saveGroup"], {})
    [] rq.pc = "saveGroup" ->
         \* group.owner = newOwnerId; save(): {$set: {owner}}, no __v filter
         IF rq.gid \notin DOMAIN db.groups
         THEN Out(db, Thrown(rq, "DocumentNotFoundError"), {})
         ELSE Out([db EXCEPT !.groups[rq.gid].owner = CastObjectId(rq.userId)],
                  Done(rq, 200, "Ownership transferred"), {})

\* The function f with x taken out of its domain
Drop(f, x) == [y \in DOMAIN f \ {x} |-> f[y]]

(***************************************************************************)
(* DELETE /groups/:groupId                                                 *)
(***************************************************************************)
deleteGroup(db, rq, t) ==
  CASE rq.pc = "start" ->
         LET group == findGroup(db, rq.gid)
             r1 == [rq EXCEPT !.group = group, !.vCurrent = TRUE]
         IN IF group = Null
            THEN Out(db, Done(r1, 404, "Group not found"), {})
            ELSE IF ~isOwner(group, rq.user)
            THEN Out(db, Done(r1, 403, "Only owner"), {})
            ELSE IF hasOtherMembers(group)
            THEN Out(db, Done(r1, 400, "Group can be deleted only if owner is sole member"), {})
            ELSE Out(db, [r1 EXCEPT !.pc = "deleteOne"], {})
    [] rq.pc = "deleteOne" ->
         Out([db EXCEPT !.groups = Drop(@, rq.gid)],
             Done(rq, 200, "Group deleted"), {})

\* sha256(rawToken): a one-way digest, never the raw token itself
sha256(token) == <<"sha256", token>>

\* Invite.findOne({tokenHash})
findInvite(db, tokenHash) ==
  LET m == {i \in db.invites : i.tokenHash = tokenHash}
  IN IF m = {} THEN Null ELSE CHOOSE i \in m : TRUE

(***************************************************************************)
(* POST /groups/:groupId/invites                                           *)
(***************************************************************************)
createInvite(db, rq, t) ==
  CASE rq.pc = "start" ->
         LET group == findGroup(db, rq.gid)
             r1 == [rq EXCEPT !.group = group, !.vCurrent = TRUE]
         IN IF group = Null
            THEN Out(db, Done(r1, 404, "Group not found"), {})
            ELSE IF ~isOwner(group, rq.user)
            THEN Out(db, Done(r1, 403, "Only owner can create invites"), {})
            ELSE IF ~(rq.maxUses >= 0 /\ rq.expiresInMinutes > 0)
            THEN Out(db, Done(r1, 400, "Invalid invite params"), {})
            ELSE Out(db, [r1 EXCEPT
                            !.invite = [tokenHash |-> sha256(0),
                                        group |-> rq.gid,
                                        owner |-> rq.user,
                                        maxUses |-> Max(1, rq.maxUses),
                                        uses |-> 0,
                                        expiresAt |-> t + Max(1, rq.expiresInMinutes),
                                        disabled |-> FALSE],
                            !.pc = "create"], {})
    [] rq.pc = "create" ->
         \* generateRawToken(): a token no earlier invite has
         LET rawToken == db.nInvites + 1
         IN Out([db EXCEPT
                   !.invites = @ \cup
                      {[rq.invite EXCEPT !.tokenHash = sha256(rawToken)]},
                   !.nInvites = rawToken],
                [Done(rq, 201, "Invite created") EXCEPT !.token = rawToken], {})

(***************************************************************************)
(* POST /groups/join-with-invite                                           *)
(***************************************************************************)
joinWithInvite(db, rq, t) ==
  CASE rq.pc = "start" ->
         LET invite == findInvite(db, sha256(rq.token))
             r1 == [rq EXCEPT !.invite = invite]
         IN IF invite = Null \/ invite.disabled
            THEN Out(db, Done(r1, 400, "Invalid invite"), {})
            ELSE IF invite.expiresAt <= t
            THEN Out(db, Done(r1, 400, "Invite expired"), {})
            ELSE IF invite.uses >= invite.maxUses
            THEN Out(db, Done(r1, 400, "Invite exhausted"), {})
            ELSE Out(db, [r1 EXCEPT !.gid = invite.group, !.pc = "findGroup"], {})
    [] rq.pc = "findGroup" ->
         LET group == findGroup(db, rq.invite.group)
             r1 == [rq EXCEPT !.group = group, !.vCurrent = TRUE]
         IN IF group = Null
            THEN Out(db, Done(r1, 404, "Group not found"), {})
            ELSE IF isBanned(group, rq.user)
            THEN Out(db, Done(r1, 403, "You are banned. Send a join request to the owner to rejoin."), {})
            ELSE IF ~capacityOk(group)
            THEN Out(db, Done(r1, 400, "Group is full"), {})
            ELSE IF ~isMember(group, rq.user)
            THEN Out(db, [r1 EXCEPT !.pc = "saveGroup"], {})
            ELSE Out(db, [r1 EXCEPT !.pc = "saveInvite"], {})
    [] rq.pc = "saveGroup" ->
         \* group.members.push(id); save(): {$push: members, $inc: __v}
         IF rq.gid \notin DOMAIN db.groups
         THEN Out(db, Thrown(rq, "DocumentNotFoundError"), {})
         ELSE Out([db EXCEPT !.groups[rq.gid].members = Append(@, rq.user)],
                  [rq EXCEPT !.pc = "saveInvite"], {rq.gid})
    [] rq.pc = "saveInvite" ->
         \* invite.uses += 1; if (uses >= maxUses) disabled = true; save():
         \* {$set: {uses: <loaded uses + 1>[, disabled: true]}}
         LET uses == rq.invite.uses + 1
             stored == findInvite(db, rq.invite.tokenHash)
         IN IF stored = Null
            THEN Out(db, Thrown(rq, "DocumentNotFoundError"), {})
            ELSE Out([db EXCEPT !.invites = (@ \ {stored}) \cup
                        {[stored EXCEPT
                            !.uses = uses,
                            !.disabled = IF uses >= rq.invite.maxUses
                                         THEN TRUE ELSE @]}],
                     Done(rq, 200, "Joined via invite"), {})

(***************************************************************************)
(* Message codec (utils/crypto.js, listed in the README): AES-128-GCM.     *)
(* A text is a sequence over Chars.  GCM is a counter mode: the ciphertext *)
(* is the text combined, place by place, with a key stream that the key    *)
(* and the IV determine, and the tag authenticates the IV and the          *)
(* ciphertext.  The payload is IV, TAG, CIPHERTEXT in that order; the      *)
(* base64 spelling of that sequence is not modelled apart from it.  The    *)
(* key is the configured one throughout.                                   *)
(***************************************************************************)
Chars == {0, 1}
IVs == {0, 1}

keyStream(iv, i) == (iv + i) % Cardinality(Chars)

\* cipher.update(plaintext) / decipher.update(ciphertext)
cipher(iv, text) ==
  [i \in 1..Len(text) |-> (text[i] + keyStream(iv, i)) % Cardinality(Chars)]
decipher_Raw(iv, ct) == ct
decipher(iv, ct) ==
  [i \in 1..Len(ct) |->
     (ct[i] + Cardinality(Chars) - keyStream(iv, i)) % Cardinality(Chars)]

RECURSIVE SumSeq(_)
SumSeq(s) == IF s = <<>> THEN 0 ELSE Head(s) + SumSeq(Tail(s))

\* cipher.getAuthTag()
authTag(iv, ct) == (iv + Len(ct) + SumSeq(ct)) % Cardinality(Chars)

encryptMessage(plaintext, iv) ==
  LET ciphertext == cipher(iv, plaintext)
  IN <<iv, authTag(iv, ciphertext)>> \o ciphertext

\* decipher.final() throws when the tag does not match
decryptMessage(payload) ==
  LET iv == payload[1]
      tag == payload[2]
      ciphertext == SubSeq(payload, 3, Len(payload))
  IN IF tag # authTag(iv, ciphertext)
     THEN [threw |-> TRUE, text |-> <<>>]
     ELSE [threw |-> FALSE, text |-> decipher(iv, ciphertext)]

(***************************************************************************)
(* Message handlers (src/src/controllers/messageController.js).            *)
(***************************************************************************)
MaxTextLength == 5000

\* A group id in the path that is no ObjectId: findById throws a CastError
MalformedGid == 0

\* sendSchema
textOk(text) == Len(text) >= 1 /\ Len(text) <= MaxTextLength

\* Group.findById and the members-only check the three handlers start with
loadGroupAsMember(db, rq, nextPc) ==
  IF rq.gid = MalformedGid
  THEN Out(db, Thrown(rq, "CastError"), {})
  ELSE LET group == findGroup(db, rq.gid)
           r1 == [rq EXCEPT !.group = group, !.vCurrent = TRUE]
       IN IF group = Null
          THEN Out(db, Done(r1, 404, "Group not found"), {})
          ELSE IF ~isMember(group, rq.user)
          THEN Out(db, Done(r1, 403, "Join group first"), {})
          ELSE Out(db, [r1 EXCEPT !.pc = nextPc], {})

\* POST /messages/:groupId
sendMessage(db, rq, t) ==
  CASE rq.pc = "start" ->
         IF ~textOk(rq.text)
         THEN Out(db, Done(rq, 400, "Validation failed"), {})
         ELSE loadGroupAsMember(db, rq, "create")
    [] rq.pc = "create" ->
         \* Message.create({group, sender, payload}); createdAt: Date.now
         Out([db EXCEPT !.messages =
                Append(@, [id |-> Len(@) + 1,
                           group |-> rq.gid,
                           sender |-> rq.user,
                           payload |-> encryptMessage(rq.text, rq.iv),
                           createdAt |-> t])],
             Done(rq, 201, "Created"), {})

\* .sort({createdAt: 1}): ascending, documents of one createdAt in stored order
RECURSIVE InsertByCreatedAt(_, _)
InsertByCreatedAt(s, m) ==
  IF s = <<>> THEN <<m>>
  ELSE IF Head(s).createdAt > m.createdAt THEN <<m>> \o s
       ELSE <<Head(s)>> \o InsertByCreatedAt(Tail(s), m)

RECURSIVE sortByCreatedAt(_)
sortByCreatedAt(s) ==
  IF s = <<>> THEN <<>>
  ELSE InsertByCreatedAt(sortByCreatedAt(SubSeq(s, 1, Len(s) - 1)), s[Len(s)])

\* Message.find({group, createdAt: {$gt: since}}).sort({createdAt: 1})
findMessages_Inclusive(db, gid, hasSince, since) ==
  sortByCreatedAt(SelectSeq(db.messages,
    LAMBDA m : m.group = gid /\ (hasSince => m.createdAt >= since)))
findMessages(db, gid, hasSince, since) ==
  sortByCreatedAt(SelectSeq(db.messages,
    LAMBDA m : m.group = gid /\ (hasSince => m.createdAt > since)))

\* GET /messages/:groupId
listMessages(db, rq, t) ==
  CASE rq.pc = "start" -> loadGroupAsMember(db, rq, "find")
    [] rq.pc = "find" ->
         LET msgs == findMessages(db, rq.gid, rq.hasSince, rq.since)
             out == [i \in 1..Len(msgs) |->
                       [id |-> msgs[i].id,
                        sender |-> msgs[i].sender,
                        createdAt |-> msgs[i].createdAt,
                        text |-> decryptMessage(msgs[i].payload).text]]
         IN IF \E i \in 1..Len(msgs) : decryptMessage(msgs[i].payload).threw
            THEN Out(db, Thrown(rq, "Unsupported state or unable to authenticate data"), {})
            ELSE Out(db, [Done(rq, 200, "") EXCEPT !.out = out], {})

\* GET /messages/:groupId/poll
pollEvents(db, rq, t) ==
  CASE rq.pc = "start" ->
         LET o == loadGroupAsMember(db, rq, "find")
         IN \* since defaults to Date.now() - 60_000
            IF rq.hasSince \/ o.rq.pc = "done" THEN o
            ELSE [o EXCEPT !.rq.hasSince = TRUE, !.rq.since = t - 1]
    [] rq.pc = "find" ->
         LET msgs == findMessages(db, rq.gid, rq.hasSince, rq.since)
         IN Out(db, [Done(rq, 200, "") EXCEPT !.newMessages = Len(msgs),
                                             !.lastChecked = t], {})

(***************************************************************************)
(* Dispatch: one step of the handler of rq at time t.                      *)
(***************************************************************************)
Step(db, rq, t) ==
  CASE rq.op = "createGroup" -> createGroup(db, rq, t)
    [] rq.op = "joinOpenGroup" -> joinOpenGroup(db, rq, t)
    [] rq.op = "requestJoinPrivate" -> requestJoinPrivate(db, rq, t)
    [] rq.op = "listJoinRequests" -> listJoinRequests(db, rq, t)
    [] rq.op = "decideJoinRequest" -> decideJoinRequest(db, rq, t)
    [] rq.op = "leaveGroup" -> leaveGroup(db, rq, t)
    [] rq.op = "banishMember" -> banishMember(db, rq, t)
    [] rq.op = "transferOwnership" -> transferOwnership(db, rq, t)
    [] rq.op = "deleteGroup" -> deleteGroup(db, rq, t)
    [] rq.op = "createInvite" -> createInvite(db, rq, t)
    [] rq.op = "joinWithInvite" -> joinWithInvite(db, rq, t)
    [] rq.op = "sendMessage" -> sendMessage(db, rq, t)
    [] rq.op = "listMessages" -> listMessages(db, rq, t)
    [] rq.op = "pollEvents" -> pollEvents(db, rq, t)

\* The handler of rq run to completion with no other request in between.
RECURSIVE Run(_, _, _)
Run(db, rq, t) ==
  IF rq.pc = "done" THEN [db |-> db, rq |-> rq]
  ELSE LET o == Step(db, rq, t) IN Run(o.db, o.rq, t)

(***************************************************************************)
(* Requests.                                                               *)
(***************************************************************************)
GroupIds == {1, 2}
RequestIds == {j.id : j \in joinRequests} \cup {<<0, "", 0>>}
Tokens == 1..(MaxInvites + 1)

CreateGroupReq(u, ty, cap, ids) ==
  [BlankReq EXCEPT !.op = "createGroup", !.user = u, !.type = ty,
                   !.maxMembers = cap, !.initialMemberIds = ids]
JoinOpenReq(u, g) ==
  [BlankReq EXCEPT !.op = "joinOpenGroup", !.user = u, !.gid = g]
RequestJoinReq(u, g) ==
  [BlankReq EXCEPT !.op = "requestJoinPrivate", !.user = u, !.gid = g]
ListRequestsReq(u, g) ==
  [BlankReq EXCEPT !.op = "listJoinRequests", !.user = u, !.gid = g]
DecideReq(u, rid, d) ==
  [BlankReq EXCEPT !.op = "decideJoinRequest", !.user = u, !.rid = rid,
                   !.decision = d]
LeaveReq(u, g) ==
  [BlankReq EXCEPT !.op = "leaveGroup", !.user = u, !.gid = g]
BanishReq(u, g, target) ==
  [BlankReq EXCEPT !.op = "banishMember", !.user = u, !.gid = g,
                   !.userId = target]
TransferReq(u, g, newOwnerId) ==
  [BlankReq EXCEPT !.op = "transferOwnership", !.user = u, !.gid = g,
                   !.userId = newOwnerId]
DeleteReq(u, g) ==
  [BlankReq EXCEPT !.op = "deleteGroup", !.user = u, !.gid = g]
CreateInviteReq(u, g, maxUses, mins) ==
  [BlankReq EXCEPT !.op = "createInvite", !.user = u, !.gid = g,
                   !.maxUses = maxUses, !.expiresInMinutes = mins]
RedeemReq(u, token) ==
  [BlankReq EXCEPT !.op = "joinWithInvite", !.user = u, !.token = token]
SendReq(u, g, text, iv) ==
  [BlankReq EXCEPT !.op = "sendMessage", !.user = u, !.gid = g,
                   !.text = text, !.iv = iv]
ListReq(u, g, hasSince, since) ==
  [BlankReq EXCEPT !.op = "listMessages", !.user = u, !.gid = g,
                   !.hasSince = hasSince, !.since = since]
PollReq(u, g, hasSince, since) ==
  [BlankReq EXCEPT !.op = "pollEvents", !.user = u, !.gid = g,
                   !.hasSince = hasSince, !.since = since]

(***************************************************************************)
(* Inputs.                                                                 *)
(***************************************************************************)
GroupTypes == {"open", "private"}
Capacities == {0, 1, 2}
Decisions == {"approve", "decline", "maybe"}
MaxUsesChoices == {0, DefaultMaxUses, DefaultMaxUses + 1}
ExpiryChoices == {0, 2 * TickMinutes}
InitialIdLists == {<<>>} \cup {<<s>> : s \in IdStrings}
Texts == {<<>>} \cup {<<c>> : c \in Chars}
Times == {k * TickMinutes : k \in 0..MaxTicks}
\* ?since=<timestamp>, or no since in the query
SinceChoices == {<<FALSE, 0>>} \cup {<<TRUE, s>> : s \in Times}
\* :groupId of the message routes: a group's id, or a well-formed id that
\* names no group
MsgGroupIds == GroupIds \cup {nGroups + 1}

(***************************************************************************)
(* Init: an empty store at time 0, nothing in flight.                      *)
(***************************************************************************)
Init ==
  /\ groups = <<>>
  /\ nGroups = 0
  /\ joinRequests = {}
  /\ leaveHistory = <<>>
  /\ invites = {}
  /\ nInvites = 0
  /\ messages = <<>>
  /\ now = 0
  /\ reqs = <<>>
  /\ writes = 0
  /\ plaintexts = <<>>

\* The store after a step or a run
SetStore(db) ==
  /\ groups' = db.groups
  /\ nGroups' = db.nGroups
  /\ joinRequests' = db.joinRequests
  /\ leaveHistory' = db.leaveHistory
  /\ invites' = db.invites
  /\ nInvites' = db.nInvites
  /\ messages' = db.messages

\* A request handled from its first line to its response.
Call(rq) ==
  LET r == Run(Store, rq, now)
  IN /\ SetStore(r.db)
     /\ writes' = IF r.db = Store THEN writes ELSE writes + 1
     /\ UNCHANGED <<now, reqs, plaintexts>>

CreateGroup ==
  /\ writes < MaxWrites
  /\ nGroups = 0
  /\ \E u \in Creators, ty \in GroupTypes, cap \in Capacities, ids \in InitialIdLists :
        Call(CreateGroupReq(u, ty, cap, ids))

JoinOpen ==
  /\ writes < MaxWrites
  /\ \E u \in Users, g \in GroupIds : Call(JoinOpenReq(u, g))

RequestJoin ==
  /\ writes < MaxWrites
  /\ \E u \in Users, g \in GroupIds : Call(RequestJoinReq(u, g))

ListRequests ==
  /\ writes < MaxWrites
  /\ \E u \in Users, g \in GroupIds : Call(ListRequestsReq(u, g))

Decide ==
  /\ writes < MaxWrites
  /\ \E u \in Users, rid \in RequestIds, d \in Decisions : Call(DecideReq(u, rid, d))

Leave ==
  /\ writes < MaxWrites
  /\ Len(leaveHistory) < MaxLeaves
  /\ \E u \in Users, g \in GroupIds : Call(LeaveReq(u, g))

Banish ==
  /\ writes < MaxWrites
  /\ \E u \in Users, g \in GroupIds, target \in IdStrings : Call(BanishReq(u, g, target))

Transfer ==
  /\ writes < MaxWrites
  /\ \E u \in Users, g \in GroupIds, newOwnerId \in IdStrings :
        Call(TransferReq(u, g, newOwnerId))

Delete ==
  /\ writes < MaxWrites
  /\ \E u \in Users, g \in GroupIds : Call(DeleteReq(u, g))

CreateInvite ==
  /\ writes < MaxWrites
  /\ nInvites < MaxInvites
  /\ \E u \in Users, g \in GroupIds, m \in MaxUsesChoices, e \in ExpiryChoices :
        Call(CreateInviteReq(u, g, m, e))

Redeem ==
  /\ writes < MaxWrites
  /\ \E u \in Users, tok \in Tokens : Call(RedeemReq(u, tok))

\* Time passes.
Tick ==
  /\ now < MaxTicks * TickMinutes
  /\ now' = now + TickMinutes
  /\ UNCHANGED <<groups, nGroups, joinRequests, leaveHistory, invites,
                 nInvites, messages, reqs, writes, plaintexts>>

\* The store's TTL index on expiresAt deletes an expired invite.
ExpireInvite ==
  \E i \in invites :
     /\ i.expiresAt <= now
     /\ invites' = invites \ {i}
     /\ UNCHANGED <<groups, nGroups, joinRequests, leaveHistory, nInvites,
                    messages, now, reqs, writes, plaintexts>>

Next ==
  \/ CreateGroup
  \/ JoinOpen
  \/ RequestJoin
  \/ ListRequests
  \/ Decide
  \/ Leave
  \/ Banish
  \/ Transfer
  \/ Delete
  \/ CreateInvite
  \/ Redeem
  \/ Tick
  \/ ExpireInvite

Spec == Init /\ [][Next]_vars

(***************************************************************************)
(* ConcSpec: requests in flight at the same time.  The serving runtime     *)
(* runs one handler until its next await and may then run any other; each  *)
(* step of a handler is one atomic store call.                             *)
(*                                                                         *)
(* The store starts as a short sequence of complete calls leaves it: group *)
(* 1 created by A (open or private, unlimited or capacity 2, alone or with *)
(* B), join requests by B and C (they are pending when the group is        *)
(* private and the user is not a member) and a two-use invite.             *)
(***************************************************************************)
EmptyStore ==
  [groups |-> <<>>, nGroups |-> 0, joinRequests |-> {}, leaveHistory |-> <<>>,
   invites |-> {}, nInvites |-> 0, messages |-> <<>>]

RECURSIVE RunAll(_, _, _)
RunAll(db, rqs, t) ==
  IF rqs = <<>> THEN db
  ELSE RunAll(Run(db, Head(rqs), t).db, Tail(rqs), t)

ConcSetups ==
  {<<CreateGroupReq("A", ty, cap, ids),
     RequestJoinReq("B", 1),
     RequestJoinReq("C", 1),
     CreateInviteReq("A", 1, DefaultMaxUses + 1, 2 * TickMinutes)>> :
     ty \in GroupTypes, cap \in {0, 2}, ids \in {<<>>, <<toString("B")>>}}

\* The calls that may be in flight, by B, by C and by the owner A.
ConcRequests ==
  <<JoinOpenReq("B", 1),
    JoinOpenReq("C", 1),
    RedeemReq("B", 1),
    RedeemReq("C", 1),
    DecideReq("A", <<1, "B", 1>>, "approve"),
    DecideReq("A", <<1, "C", 1>>, "approve"),
    DecideReq("A", <<1, "B", 1>>, "decline"),
    LeaveReq("B", 1),
    BanishReq("A", 1, toString("B")),
    BanishReq("A", 1, toString("C")),
    TransferReq("A", 1, toString("B"))>>

ConcInit ==
  /\ \E setup \in ConcSetups :
        LET db == RunAll(EmptyStore, setup, 0)
        IN /\ groups = db.groups
           /\ nGroups = db.nGroups
           /\ joinRequests = db.joinRequests
           /\ leaveHistory = db.leaveHistory
           /\ invites = db.invites
           /\ nInvites = db.nInvites
           /\ messages = db.messages
  /\ now = 0
  /\ reqs = <<>>
  /\ writes = 0
  /\ plaintexts = <<>>

\* A request arrives.  Arrival touches nothing, so requests are taken in
\* the order of ConcRequests: any other arrival order has the same steps.
Begin ==
  /\ Len(reqs) < MaxInFlight
  /\ \E k \in 1..Len(ConcRequests) :
        /\ \A i \in 1..Len(reqs) : reqs[i].k <= k
        /\ reqs' = Append(reqs, [ConcRequests[k] EXCEPT !.k = k])
  /\ UNCHANGED <<groups, nGroups, joinRequests, leaveHistory, invites,
                 nInvites, messages, now, writes, plaintexts>>

\* A handler that has answered keeps no documents.
Settle(rq) ==
  IF rq.pc = "done"
  THEN [rq EXCEPT !.group = Null, !.jr = Null, !.invite = Null, !.vCurrent = TRUE]
  ELSE rq

\* The request in flight at position i runs to its next await.  A step that
\* increments a group's __v leaves every other loaded copy of that group with
\* an older __v.
Advance ==
  \E i \in 1..Len(reqs) :
     /\ reqs[i].pc # "done"
     /\ LET o == Step(Store, reqs[i], now)
        IN /\ SetStore(o.db)
           /\ reqs' = [j \in 1..Len(reqs) |->
                         IF j = i THEN Settle(o.rq)
                         ELSE IF /\ reqs[j].pc # "done"
                                 /\ reqs[j].group # Null
                                 /\ reqs[j].gid \in o.bumped
                              THEN [reqs[j] EXCEPT !.vCurrent = FALSE]
                              ELSE reqs[j]]
     /\ UNCHANGED <<now, writes, plaintexts>>

ConcNext ==
  \/ Begin
  \/ Advance

ConcSpec == ConcInit /\ [][ConcNext]_vars

(***************************************************************************)
(* PairSpec: the calls that read or write the JoinRequest of one pair,     *)
(* (group 1, user B), in flight at the same time, deleteGroup included.    *)
(* The store starts with group 1 created by A, open or private, alone or   *)
(* with B, and no JoinRequest.                                             *)
(***************************************************************************)
PairSetups ==
  {<<CreateGroupReq("A", ty, 0, ids)>> :
     ty \in GroupTypes, ids \in {<<>>, <<toString("B")>>}}

PairRequests ==
  <<RequestJoinReq("B", 1),
    JoinOpenReq("B", 1),
    BanishReq("A", 1, toString("B")),
    DecideReq("A", <<1, "B", 1>>, "approve"),
    DecideReq("A", <<1, "B", 1>>, "decline"),
    LeaveReq("B", 1),
    DeleteReq("A", 1)>>

PairInit ==
  /\ \E setup \in PairSetups :
        LET db == RunAll(EmptyStore, setup, 0)
        IN /\ groups = db.groups
           /\ nGroups = db.nGroups
           /\ joinRequests = db.joinRequests
           /\ leaveHistory = db.leaveHistory
           /\ invites = db.invites
           /\ nInvites = db.nInvites
           /\ messages = db.messages
  /\ now = 0
  /\ reqs = <<>>
  /\ writes = 0
  /\ plaintexts = <<>>

PairBegin ==
  /\ Len(reqs) < MaxInFlight
  /\ \E k \in 1..Len(PairRequests) :
        /\ \A i \in 1..Len(reqs) : reqs[i].k <= k
        /\ reqs' = Append(reqs, [PairRequests[k] EXCEPT !.k = k])
  /\ UNCHANGED <<groups, nGroups, joinRequests, leaveHistory, invites,
                 nInvites, messages, now, writes, plaintexts>>

PairNext ==
  \/ PairBegin
  \/ Advance

PairSpec == PairInit /\ [][PairNext]_vars

(***************************************************************************)
(* MsgSpec: the message log.  The store starts with two open groups,       *)
(* group 1 created by A with C and group 2 created by B; users join,       *)
(* leave and are banished while messages are sent, listed and              *)
(* polled, every handler running to completion before the next starts.     *)
(* The calls that set the store up count among the writes.                 *)
(***************************************************************************)
MsgSetups ==
  {<<CreateGroupReq("A", "open", 0, <<toString("C")>>),
     CreateGroupReq("B", "open", 0, <<>>)>>}

MsgInit ==
  /\ \E setup \in MsgSetups :
        LET db == RunAll(EmptyStore, setup, 0)
        IN /\ groups = db.groups
           /\ nGroups = db.nGroups
           /\ joinRequests = db.joinRequests
           /\ leaveHistory = db.leaveHistory
           /\ invites = db.invites
           /\ nInvites = db.nInvites
           /\ messages = db.messages
           /\ writes = Len(setup)
  /\ now = 0
  /\ reqs = <<>>
  /\ plaintexts = <<>>

Send ==
  /\ writes < MaxWrites
  /\ Len(messages) < MaxMessages
  /\ \E u \in Users, g \in MsgGroupIds, text \in Texts, iv \in IVs :
        LET r == Run(Store, SendReq(u, g, text, iv), now)
        IN /\ SetStore(r.db)
           /\ writes' = IF r.db = Store THEN writes ELSE writes + 1
           /\ plaintexts' = IF Len(r.db.messages) > Len(messages)
                            THEN Append(plaintexts, text)
                            ELSE plaintexts
           /\ UNCHANGED <<now, reqs>>

List ==
  /\ writes < MaxWrites
  /\ \E u \in Users, g \in MsgGroupIds, s \in SinceChoices :
        Call(ListReq(u, g, s[1], s[2]))

Poll ==
  /\ writes < MaxWrites
  /\ \E u \in Users, g \in MsgGroupIds, s \in SinceChoices :
        Call(PollReq(u, g, s[1], s[2]))

MsgNext ==
  \/ Send
  \/ List
  \/ Poll
  \/ JoinOpen
  \/ Leave
  \/ Banish
  \/ Tick

MsgSpec == MsgInit /\ [][MsgNext]_vars

(***************************************************************************)
(* RejoinSpec: Spec continued from the store that three complete calls     *)
(* leave: private group 1 created by A, a join request of B pending, and a *)
(* two-use invite that outlasts the cooldown.  Users request, redeem the   *)
(* invite and leave, and the owner decides, every handler running to       *)
(* completion before the next starts.  writes counts the calls after those *)
(* three.                                                                  *)
(***************************************************************************)
RejoinSetups ==
  {<<CreateGroupReq("A", "private", 0, <<>>),
     RequestJoinReq("B", 1),
     CreateInviteReq("A", 1, DefaultMaxUses + 1, (MaxTicks + 1) * TickMinutes)>>}

RejoinInit ==
  /\ \E setup \in RejoinSetups :
        LET db == RunAll(EmptyStore, setup, 0)
        IN /\ groups = db.groups
           /\ nGroups = db.nGroups
           /\ joinRequests = db.joinRequests
           /\ leaveHistory = db.leaveHistory
           /\ invites = db.invites
           /\ nInvites = db.nInvites
           /\ messages = db.messages
  /\ now = 0
  /\ reqs = <<>>
  /\ writes = 0
  /\ plaintexts = <<>>

RejoinNext ==
  \/ RequestJoin
  \/ Decide
  \/ Leave
  \/ Redeem
  \/ Tick

RejoinSpec == RejoinInit /\ [][RejoinNext]_vars

(***************************************************************************)
(* Properties.  A property about what one call does is stated over every   *)
(* reachable state: for every input, the handler run to completion from    *)
(* that state (Run) answers and leaves the store as the property says.     *)
(***************************************************************************)
Members(g) == Range(groups[g].members)
Banned(g) == Range(groups[g].bannedUsers)
After(rq) == Run(Store, rq, now)
RequestOf(db, g, u) == {j \in db.joinRequests : j.group = g /\ j.user = u}

\* C1: every existing group satisfies capacity = 0 or |members| <= capacity,
\* whatever sequence of complete calls led to the state.
C1_CapacityRespected ==
  \A g \in DOMAIN groups :
     groups[g].maxMembers = 0 \/ Len(groups[g].members) <= groups[g].maxMembers

\* A group that an invite redemption has filled to its capacity.
C1_Witness ==
  \E g \in DOMAIN groups :
     /\ groups[g].maxMembers # 0
     /\ Len(groups[g].members) = groups[g].maxMembers
     /\ \E i \in invites : i.group = g /\ i.uses > 0

\* C2: no user is at once a member of a group and in its banned set.
C2_MembersDisjointFromBanned ==
  \A g \in DOMAIN groups : Members(g) \cap Banned(g) = {}

\* A group that has a banned user and a member whose request the owner
\* approved.
C2_Witness ==
  \E g \in DOMAIN groups, j \in joinRequests, b \in Users :
     /\ j.group = g /\ j.status = "approved" /\ j.user \in Members(g)
     /\ b \in Banned(g)

\* C3: the owner of every existing group is one of its members.
C3_OwnerIsMember ==
  \A g \in DOMAIN groups : groups[g].owner \in Members(g)

\* Ownership was transferred and the former owner has left.
C3_Witness ==
  \E g \in DOMAIN groups :
     /\ groups[g].owner \notin Creators
     /\ Creators \cap Members(g) = {}

\* C7: deleteGroup deletes the group iff the caller is the owner and members
\* has exactly one entry; a non-owner gets 403, an owner with other members
\* 400, and both failures leave the store unchanged.
C7_DeleteIffSoleOwner ==
  \A g \in DOMAIN groups, u \in Users :
     LET r == After(DeleteReq(u, g))
         group == groups[g]
         sole == group.owner = u /\ Len(group.members) = 1
     IN /\ (g \notin DOMAIN r.db.groups) <=> sole
        /\ sole => /\ r.rq.res.status = 200
                   /\ r.db = [Store EXCEPT !.groups = Drop(@, g)]
        /\ group.owner # u => r.rq.res.status = 403 /\ r.db = Store
        /\ (group.owner = u /\ Len(group.members) > 1) =>
              r.rq.res.status = 400 /\ r.db = Store

\* A group has been deleted.
C7_Witness ==
  /\ nGroups > Cardinality(DOMAIN groups)
  /\ writes >= 2

\* C8: joinOpen is idempotent.  The first call by a user who is neither
\* member nor banned, with free capacity, makes the user a member; a call by
\* a member answers 200 'Already a member' and changes nothing, also when
\* the group is full.
C8_JoinOpenIdempotent ==
  \A g \in DOMAIN groups, u \in Users :
     groups[g].type = "open" =>
        LET r1 == After(JoinOpenReq(u, g))
            r2 == Run(r1.db, JoinOpenReq(u, g), now)
        IN /\ (u \notin Members(g) /\ u \notin Banned(g) /\ capacityOk(groups[g])) =>
                /\ r1.rq.res = Resp(200, "Joined")
                /\ u \in Range(r1.db.groups[g].members)
                /\ r2.rq.res = Resp(200, "Already a member")
                /\ r2.db = r1.db
           /\ u \in Members(g) =>
                /\ r1.rq.res = Resp(200, "Already a member")
                /\ r1.db = Store

\* A member, not the owner, of an open group that is full.
C8_Witness ==
  \E g \in DOMAIN groups, u \in Users :
     /\ groups[g].type = "open"
     /\ groups[g].maxMembers # 0
     /\ Len(groups[g].members) = groups[g].maxMembers
     /\ u \in Members(g) /\ u # groups[g].owner
     /\ After(JoinOpenReq(u, g)).rq.res.msg = "Already a member"

\* The raw token of an invite
TokenOf(i) == CHOOSE tok \in Tokens : sha256(tok) = i.tokenHash

\* C9 (as claimed): once an unexpired invite with maxUses = 1 has been
\* redeemed, every later redeemInvite with its token fails with 'Invite
\* exhausted' and adds nobody.
C9_LaterRedeemExhausted ==
  \A i \in invites, u \in Users :
     (i.maxUses = 1 /\ i.uses >= 1 /\ i.expiresAt > now) =>
        LET r == After(RedeemReq(u, TokenOf(i)))
        IN /\ r.rq.res = Resp(400, "Invite exhausted")
           /\ r.db = Store

\* C10: for a user who left a private group and is neither member nor
\* banned, requestJoinPrivate less than 48 hours after the most recent leave
\* fails with 'Cooldown active' and touches no JoinRequest; at 48 hours or
\* later it succeeds and the pair's JoinRequest is pending.
C10_Cooldown ==
  \A g \in DOMAIN groups, u \in Users :
     LET leave == lastLeave(Store, g, u)
         r == After(RequestJoinReq(u, g))
     IN (/\ groups[g].type = "private"
         /\ leave # Null
         /\ u \notin Members(g) /\ u \notin Banned(g)) =>
           IF now - leave.leftAt < COOLDOWN_HOURS * 60
           THEN /\ r.rq.res = Resp(400, "Cooldown active")
                /\ r.db = Store
           ELSE /\ r.rq.res.status = 200
                /\ RequestOf(r.db, g, u) # {}
                /\ \A j \in RequestOf(r.db, g, u) : j.status = "pending"

\* A user who left a private group 48 hours ago or more and whose request,
\* made after the cooldown, is pending (no invite was ever issued, so the
\* request was not made before the user became a member).
C10_Witness ==
  \E g \in DOMAIN groups, u \in Users :
     LET leave == lastLeave(Store, g, u)
     IN /\ groups[g].type = "private"
        /\ leave # Null
        /\ u \notin Members(g) /\ u \notin Banned(g)
        /\ now - leave.leftAt >= COOLDOWN_HOURS * 60
        /\ nInvites = 0
        /\ \E j \in RequestOf(Store, g, u) : j.status = "pending"

(***************************************************************************)
(* Properties of concurrent requests (ConcSpec).                           *)
(***************************************************************************)
AllDone == \A i \in 1..Len(reqs) : reqs[i].pc = "done"

IsApprove(rq) == rq.op = "decideJoinRequest" /\ rq.decision = "approve"
IsJoin(rq) == rq.op \in {"joinOpenGroup", "joinWithInvite"} \/ IsApprove(rq)

\* The user a join call would admit
Joiner(rq) == IF rq.op = "decideJoinRequest" THEN rq.rid[2] ELSE rq.user

\* C4 (as claimed): when two joins by two different users have run
\* concurrently and both have completed, |members| <= capacity still holds.
C4_ConcurrentJoinsRespectCapacity ==
  (/\ Len(reqs) = 2
   /\ AllDone
   /\ IsJoin(reqs[1]) /\ IsJoin(reqs[2])
   /\ Joiner(reqs[1]) # Joiner(reqs[2])) =>
     \A g \in DOMAIN groups :
        groups[g].maxMembers = 0 \/ Len(groups[g].members) <= groups[g].maxMembers

\* C5 (as claimed): of two concurrent approve calls by the owner on the same
\* pending request (in a group with a free seat), exactly one answers 200 and
\* the other 409.
C5_OneApproveOneConflict ==
  (/\ Len(reqs) = 2
   /\ AllDone
   /\ IsApprove(reqs[1]) /\ IsApprove(reqs[2])
   /\ reqs[1].rid = reqs[2].rid
   /\ \A i \in 1..2 : reqs[i].res.status \notin {400, 404}) =>
     {reqs[1].res.status, reqs[2].res.status} = {200, 409}

\* C6 (as claimed): once concurrent joinOpen, redeemInvite, approve, leave
\* and banish calls on one group have all completed, members and banned are
\* disjoint.
C6_ConcurrentDisjoint ==
  (/\ AllDone
   /\ \A i \in 1..Len(reqs) :
         IsJoin(reqs[i]) \/ reqs[i].op \in {"leaveGroup", "banishMember"}) =>
     \A g \in DOMAIN groups : Members(g) \cap Banned(g) = {}

(***************************************************************************)
(* Properties of single calls, continued (Spec).                           *)
(***************************************************************************)
Owner(g) == groups[g].owner
IsFull(group) == group.maxMembers # 0 /\ Len(group.members) = group.maxMembers
PendingRequests == {j \in joinRequests : j.status = "pending" /\ j.group \in DOMAIN groups}

\* C11: approving a pending request of a full group (capacity nonzero,
\* |members| = capacity) answers 400 'Group is full' and changes nothing:
\* the request stays pending, members and banned stay as they were; once
\* another member has left, the same request is approved.
C11_ApproveFullGroupFails ==
  \A j \in PendingRequests :
     IsFull(groups[j.group]) =>
        LET g == j.group
            approve == DecideReq(Owner(g), j.id, "approve")
            r == After(approve)
        IN /\ r.rq.res = Resp(400, "Group is full")
           /\ r.db = Store
           /\ \A m \in Members(g) \ {Owner(g), j.user} :
                 LET freed == Run(r.db, LeaveReq(m, g), now).db
                     r2 == Run(freed, approve, now)
                 IN /\ r2.rq.res.status = 200
                    /\ j.user \in Range(r2.db.groups[g].members)
                    /\ \A k \in r2.db.joinRequests : k.id = j.id => k.status = "approved"

\* A pending request of a non-member on a full group, which has a member
\* other than the owner who can free a seat.
C11_Witness ==
  \E j \in PendingRequests :
     /\ IsFull(groups[j.group])
     /\ j.user \notin Members(j.group)
     /\ Members(j.group) \ {Owner(j.group), j.user} # {}
     /\ After(DecideReq(Owner(j.group), j.id, "approve")).rq.res.msg = "Group is full"

\* The join call open to a user who is not a member: joinOpen on an open
\* group, requestJoinPrivate on a private one.
JoinAttempt(u, g) ==
  IF groups[g].type = "open" THEN JoinOpenReq(u, g) ELSE RequestJoinReq(u, g)

\* The store once the owner has banished member b (b may be banned already)
Banished(g, b) ==
  IF b \in Banned(g) THEN Store
  ELSE Run(Store, BanishReq(Owner(g), g, toString(b)), now).db

\* C12: after the owner banishes member B, B's joinOpen / requestJoinPrivate
\* answers 403 and leaves exactly one JoinRequest of (group, B), pending; if
\* the owner then approves it while the group has a free seat, B leaves
\* banned, joins members and the request is approved.
C12_BanReentryThenApprove ==
  \A g \in DOMAIN groups, b \in Users :
     (b \in Banned(g) \/ (b \in Members(g) /\ b # Owner(g))) =>
        LET db1 == Banished(g, b)
            r1 == Run(db1, JoinAttempt(b, g), now)
            reqsOfB == RequestOf(r1.db, g, b)
        IN /\ b \in Range(db1.groups[g].bannedUsers)
           /\ r1.rq.res.status = 403
           /\ Cardinality(reqsOfB) = 1
           /\ \A j \in reqsOfB :
                 /\ j.status = "pending"
                 /\ capacityOk(r1.db.groups[g]) =>
                       LET r2 == Run(r1.db, DecideReq(Owner(g), j.id, "approve"), now)
                           after == r2.db.groups[g]
                       IN /\ r2.rq.res.status = 200
                          /\ b \notin Range(after.bannedUsers)
                          /\ b \in Range(after.members)
                          /\ \A k \in RequestOf(r2.db, g, b) : k.status = "approved"

\* A banished user whose join attempt has left a pending request, in a group
\* with a free seat.
C12_Witness ==
  \E g \in DOMAIN groups, b \in Users :
     /\ b \in Banned(g)
     /\ b \notin Members(g)
     /\ capacityOk(groups[g])
     /\ \E j \in RequestOf(Store, g, b) : j.status = "pending"
     /\ After(JoinAttempt(b, g)).rq.res.status = 403

\* C13: a join attempt (joinOpen, requestJoinPrivate) by a banned user
\* answers 403 and leaves the pair's one JoinRequest pending, whatever it was
\* before (absent, pending, approved, declined) and whether or not a cooldown
\* is active; the groups, the other JoinRequests, LeaveHistory and the
\* invites are unchanged.
C13_BannedJoinUpsertsPending ==
  \A g \in DOMAIN groups, u \in Users :
     (u \in Banned(g) \/ (u \in Members(g) /\ u # Owner(g))) =>
        LET db1 == Banished(g, u)
            r == Run(db1, JoinAttempt(u, g), now)
        IN /\ r.rq.res.status = 403
           /\ Cardinality(RequestOf(r.db, g, u)) = 1
           /\ \A j \in RequestOf(r.db, g, u) : j.status = "pending"
           /\ r.db.joinRequests \ RequestOf(r.db, g, u) =
                 db1.joinRequests \ RequestOf(db1, g, u)
           /\ r.db.groups = db1.groups
           /\ r.db.leaveHistory = db1.leaveHistory
           /\ r.db.invites = db1.invites

\* A member of a private group who left it less than 48 hours ago and is
\* back in it: once banished, the member's requestJoinPrivate meets the ban
\* rule while the cooldown is active.
C13_Witness ==
  \E g \in DOMAIN groups, u \in Users :
     LET leave == lastLeave(Store, g, u)
     IN /\ groups[g].type = "private"
        /\ u \in Members(g) /\ u # Owner(g)
        /\ leave # Null /\ cooldownActive(leave, now)
        /\ u \in Range(Banished(g, u).groups[g].bannedUsers)
        /\ Run(Banished(g, u), RequestJoinReq(u, g), now).rq.res.status = 403

\* An invite that a redemption would accept at the current time
Redeemable(i) ==
  /\ ~i.disabled
  /\ i.expiresAt > now
  /\ i.uses < i.maxUses
  /\ i.group \in DOMAIN groups

\* C14: redeemInvite by a user banned from the invite's group answers 403,
\* also when the invite is valid, unexpired and unexhausted and the group
\* has a free seat; the user is not added and stays banned, and the invite's
\* uses and disabled are unchanged (nothing in the store changes).
C14_InviteNeverOverridesBan ==
  \A i \in invites, u \in Users :
     (Redeemable(i) /\ u \in Banned(i.group)) =>
        LET r == After(RedeemReq(u, TokenOf(i)))
        IN /\ r.rq.res.status = 403
           /\ r.db = Store

\* A redeemable invite of a group with a free seat and a banned user, whose
\* redemption is refused.
C14_Witness ==
  \E i \in invites, u \in Users :
     /\ Redeemable(i)
     /\ u \in Banned(i.group)
     /\ capacityOk(groups[i.group])
     /\ After(RedeemReq(u, TokenOf(i))).rq.res.status = 403

\* C15: in every step of every sequence of complete calls, a user leaves a
\* group's banned set, or a banned user becomes a member, only by a
\* successful decideRequest(approve) of the group's current owner on that
\* user's pending request: the step is what that call does.
C15_OnlyOwnerApprovalUnbans ==
  [][\A g \in DOMAIN groups \cap DOMAIN groups', u \in ObjectIds :
        (/\ u \in Range(groups[g].bannedUsers)
         /\ \/ u \notin Range(groups'[g].bannedUsers)
            \/ u \in Range(groups'[g].members)) =>
           \E j \in joinRequests :
              /\ j.group = g /\ j.user = u /\ j.status = "pending"
              /\ LET r == After(DecideReq(groups[g].owner, j.id, "approve"))
                 IN /\ r.rq.res.status = 200
                    /\ r.db.groups = groups'
                    /\ r.db.joinRequests = joinRequests']_vars

\* A banned user with a pending request that the owner's approve accepts:
\* the approve unbans and admits the user.
C15_Witness ==
  \E g \in DOMAIN groups, u \in Users :
     /\ u \in Banned(g)
     /\ \E j \in RequestOf(Store, g, u) :
           LET r == After(DecideReq(Owner(g), j.id, "approve"))
           IN /\ j.status = "pending"
              /\ r.rq.res.status = 200
              /\ u \in Range(r.db.groups[g].members)
              /\ u \notin Range(r.db.groups[g].bannedUsers)

\* The join calls open to u on group g: joinOpen or requestJoinPrivate by
\* the group's type, and the redemption of every redeemable invite of g.
JoinAttempts(u, g) ==
  {JoinAttempt(u, g)} \cup
  {RedeemReq(u, TokenOf(i)) : i \in {x \in invites : Redeemable(x) /\ x.group = g}}

\* C16 (as claimed): every join attempt by a user banned from the group,
\* through joinOpen, requestJoinPrivate or redeemInvite, leaves a pending
\* JoinRequest of the pair.
C16_BannedAttemptLeavesPending ==
  \A g \in DOMAIN groups, u \in Users :
     u \in Banned(g) =>
        \A rq \in JoinAttempts(u, g) :
           \E j \in RequestOf(After(rq).db, g, u) : j.status = "pending"

\* C17 (as claimed): leave by a non-member fails and changes nothing; leave
\* by the owner fails with 'Owner must transfer ownership before leaving' and
\* changes nothing; any other leave removes the user from members, keeps the
\* other members, owner and banned as they were, and appends one
\* LeaveHistory record of the pair exactly when the group is private.
C17_LeaveEffect ==
  \A g \in DOMAIN groups, u \in Users :
     LET r == After(LeaveReq(u, g))
         group == groups[g]
     IN IF u \notin Members(g)
        THEN r.rq.res.status = 400 /\ r.db = Store
        ELSE IF u = group.owner
        THEN /\ r.rq.res = Resp(400, "Owner must transfer ownership before leaving")
             /\ r.db = Store
        ELSE /\ r.rq.res.status = 200
             /\ r.db.groups = [groups EXCEPT ![g].members = Without(@, u)]
             /\ r.db.leaveHistory =
                   IF group.type = "private"
                   THEN Append(leaveHistory, [group |-> g, user |-> u, leftAt |-> now])
                   ELSE leaveHistory
             /\ r.db.joinRequests = joinRequests
             /\ r.db.invites = invites

\* Ids a request body can carry that name an ObjectId
ValidIdStrings == {s \in IdStrings : isValidObjectId(s)}

\* Groups whose owner has an account and so can call
OwnedGroups == {g \in DOMAIN groups : groups[g].owner \in Users}

\* C18 (as claimed): banish by the owner fails when the target is the owner;
\* answers the success 'already banned' with no change when the target is
\* banned; fails with 'not a current member' and no change when the target
\* is neither member nor banned; otherwise removes the target from members
\* and adds it to banned, everything else unchanged.
C18_BanishEffect ==
  \A g \in OwnedGroups, s \in ValidIdStrings :
     LET target == CastObjectId(s)
         r == After(BanishReq(Owner(g), g, s))
     IN IF target = Owner(g)
        THEN r.rq.res.status = 400 /\ r.db = Store
        ELSE IF target \in Banned(g)
        THEN r.rq.res = Resp(200, "User is already banned") /\ r.db = Store
        ELSE IF target \notin Members(g)
        THEN r.rq.res = Resp(400, "User is not a current member") /\ r.db = Store
        ELSE /\ r.rq.res.status = 200
             /\ r.db = [Store EXCEPT
                          !.groups[g].members = Without(@, target),
                          !.groups[g].bannedUsers = Append(@, target)]

\* C19 (as claimed): transferOwnership by the owner fails and changes
\* nothing when newOwnerId is not a current member; otherwise it sets owner
\* to newOwnerId and changes nothing else, and the former owner can then
\* leave like any other member.
C19_TransferEffect ==
  \A g \in OwnedGroups, s \in ValidIdStrings :
     LET target == CastObjectId(s)
         former == Owner(g)
         r == After(TransferReq(former, g, s))
     IN IF target \notin Members(g)
        THEN r.rq.res.status = 400 /\ r.db = Store
        ELSE /\ r.rq.res.status = 200
             /\ r.db = [Store EXCEPT !.groups[g].owner = target]
             /\ target # former =>
                   LET r2 == Run(r.db, LeaveReq(former, g), now)
                   IN /\ r2.rq.res.status = 200
                      /\ former \notin Range(r2.db.groups[g].members)

(***************************************************************************)
(* Properties of the JoinRequest collection (PairSpec).                    *)
(***************************************************************************)
OnePerPair ==
  \A j \in joinRequests, k \in joinRequests :
     (j.group = k.group /\ j.user = k.user) => j = k

\* C20: in every state, concurrent requestJoinPrivate and ban-reentry
\* upserts of one pair included, a (group, user) pair has at most one
\* JoinRequest; and no step deletes a JoinRequest (a document of the
\* collection is still there after the step, for the same pair).
C20_OneRequestPerPairNeverDeleted ==
  /\ []OnePerPair
  /\ [][\A j \in joinRequests :
           \E k \in joinRequests' :
              k.id = j.id /\ k.group = j.group /\ k.user = j.user]_vars

\* Two concurrent requestJoinPrivate calls of the pair: both found no pending
\* request; one has upserted the pair's JoinRequest and answered, the other
\* is about to run its own upsert on the same pair.
C20_Witness ==
  /\ Len(reqs) = 2
  /\ \E a \in 1..2, b \in 1..2 :
        /\ reqs[a].op = "requestJoinPrivate"
        /\ reqs[a].res.msg = "Join request submitted"
        /\ reqs[b].op = "requestJoinPrivate"
        /\ reqs[b].pc = "upsert"
  /\ \E j \in joinRequests : j.status = "pending"

(***************************************************************************)
(* Properties of single calls, continued (Spec).                           *)
(***************************************************************************)
\* u may ask to join private group g: not a member, not banned, and no leave
\* of the pair less than 48 hours ago.
MayRequest(g, u) ==
  /\ groups[g].type = "private"
  /\ u \notin Members(g) /\ u \notin Banned(g)
  /\ LET leave == lastLeave(Store, g, u)
     IN leave = Null \/ ~cooldownActive(leave, now)

\* C21: for such a user, requestJoinPrivate answers with the id of the
\* pair's pending JoinRequest and changes nothing when there is one;
\* otherwise (declined, approved or absent) it leaves the pair with one
\* record, pending, answers with its id - the id an existing record already
\* had - and changes nothing else; a repeated call answers the same id and
\* changes nothing.
C21_RequestJoinIdempotent ==
  \A g \in DOMAIN groups, u \in Users :
     MayRequest(g, u) =>
        LET old == RequestOf(Store, g, u)
            r == After(RequestJoinReq(u, g))
            new == RequestOf(r.db, g, u)
            again == Run(r.db, RequestJoinReq(u, g), now)
        IN /\ r.rq.res.status = 200
           /\ Cardinality(new) = 1
           /\ \A j \in new : j.status = "pending" /\ j.id = r.rq.rid
           /\ \A j \in old : j.id = r.rq.rid
           /\ (\E j \in old : j.status = "pending") => r.db = Store
           /\ r.db.joinRequests \ new = joinRequests \ old
           /\ r.db.groups = groups
           /\ r.db.leaveHistory = leaveHistory
           /\ r.db.invites = invites
           /\ again.rq.res.status = 200
           /\ again.rq.rid = r.rq.rid
           /\ again.db = r.db

\* A user who may ask to join and whose JoinRequest the owner declined: the
\* call reopens that record.
C21_Witness ==
  \E g \in DOMAIN groups, u \in Users :
     /\ MayRequest(g, u)
     /\ \E j \in RequestOf(Store, g, u) :
           /\ j.status = "declined"
           /\ After(RequestJoinReq(u, g)).rq.rid = j.id
           /\ [j EXCEPT !.status = "pending"] \in After(RequestJoinReq(u, g)).db.joinRequests

ResolvedRequests ==
  {j \in joinRequests : j.status \in {"approved", "declined"}}

\* C22: a decision on an approved or declined JoinRequest changes nothing,
\* whoever calls and whatever the decision, and the owner's approve or
\* decline answers 409 'Request already resolved' carrying the resolved
\* status; in every step in which a record leaves approved or declined, it
\* becomes pending and the step is what requestJoinPrivate or joinOpen (ban
\* re-entry) by that record's user does.
C22_ResolvedRequestIsFinal ==
  /\ [](\A j \in ResolvedRequests, u \in Users, d \in Decisions :
          LET r == After(DecideReq(u, j.id, d))
          IN /\ r.db = Store
             /\ r.rq.res.status >= 400
             /\ (/\ j.group \in DOMAIN groups
                 /\ u = groups[j.group].owner
                 /\ d \in {"approve", "decline"}) =>
                   r.rq.res = RespInfo(409, "Request already resolved", j.status))
  /\ [][\A j \in ResolvedRequests :
          \A k \in joinRequests' :
             (k.id = j.id /\ k.status # j.status) =>
                /\ k.status = "pending"
                /\ j.group \in DOMAIN groups
                /\ \E rq \in {RequestJoinReq(j.user, j.group),
                              JoinOpenReq(j.user, j.group)} :
                      /\ After(rq).db.joinRequests = joinRequests'
                      /\ After(rq).db.groups = groups']_vars

\* A declined request of an existing group: the owner's approve answers 409
\* with 'declined'; and its user may reopen it.
C22_Witness ==
  \E j \in ResolvedRequests :
     /\ j.status = "declined"
     /\ j.group \in DOMAIN groups
     /\ After(DecideReq(Owner(j.group), j.id, "approve")).rq.res =
           RespInfo(409, "Request already resolved", "declined")
     /\ MayRequest(j.group, j.user)

\* The users initialMemberIds names, the caller apart
DistinctInitial(u, ids) ==
  {CastObjectId(ids[i]) : i \in {k \in 1..Len(ids) : isValidObjectId(ids[k])}} \ {u}

\* C23 (as claimed): createGroup succeeds only if capacity is 0 or >= 2 and
\* 1 + the number of distinct initial ids other than the owner fits a
\* nonzero capacity; on success the new group's members are the owner plus
\* the distinct initial ids with no duplicates, its owner is the caller and
\* its banned set is empty; on failure no group is created.
C23_CreateGroupEffect ==
  \A u \in Users, ty \in GroupTypes, cap \in Capacities, ids \in InitialIdLists :
     LET r == After(CreateGroupReq(u, ty, cap, ids))
         gid == nGroups + 1
     IN IF r.rq.res.status = 201
        THEN /\ cap = 0 \/ cap >= 2
             /\ cap # 0 => 1 + Cardinality(DistinctInitial(u, ids)) <= cap
             /\ DOMAIN r.db.groups = DOMAIN groups \cup {gid}
             /\ LET group == r.db.groups[gid]
                IN /\ Range(group.members) = {u} \cup DistinctInitial(u, ids)
                   /\ Len(group.members) = Cardinality(Range(group.members))
                   /\ group.owner = u
                   /\ group.bannedUsers = <<>>
        ELSE r.db = Store

\* An id string that references no existing user: malformed, or a well-formed
\* ObjectId under which no account is stored
ReferencesNoUser(s) ==
  s # EmptyStr /\ (isValidObjectId(s) => CastObjectId(s) \notin Users)

\* C24 (as claimed): createGroup fails, creating no group, whenever
\* initialMemberIds contains an id that does not reference an existing user;
\* consequently every member of every group is an existing user.
C24_InitialMembersExist ==
  /\ \A u \in Users, ty \in GroupTypes, cap \in Capacities, ids \in InitialIdLists :
        (\E i \in 1..Len(ids) : ReferencesNoUser(ids[i]))
        => LET r == After(CreateGroupReq(u, ty, cap, ids))
           IN r.rq.res.status >= 400 /\ r.db = Store
  /\ \A g \in DOMAIN groups : Members(g) \subseteq Users

\* The calls on the message log a caller can make on a group id
SendCalls(u, g) == {SendReq(u, g, x[1], x[2]) : x \in Texts \X IVs}
ListCalls(u, g) == {ListReq(u, g, s[1], s[2]) : s \in SinceChoices}
PollCalls(u, g) == {PollReq(u, g, s[1], s[2]) : s \in SinceChoices}
MessageCalls(u, g) == SendCalls(u, g) \cup ListCalls(u, g) \cup PollCalls(u, g)

\* The answer carries no message and no count
NoContent(rq) == rq.out = <<>> /\ rq.newMessages = 0

\* The messages a step appends
Appended == {messages'[i] : i \in (Len(messages) + 1)..Len(messages')}

\* The call is refused: it fails, changes nothing and returns no message
\* and no count; when its group exists (and, for a send, its text is
\* valid) the answer is 403
Refused(rq) ==
  LET r == After(rq)
  IN /\ r.rq.res.status >= 400
     /\ r.db = Store
     /\ NoContent(r.rq)
     /\ (rq.gid \in DOMAIN groups /\ (rq.op = "sendMessage" => textOk(rq.text)))
        => r.rq.res = Resp(403, "Join group first")

\* C25: message access is limited to current members.  send, list and
\* pollSince fail for a missing group, and fail with 403 for a caller who is
\* not in the group's members at call time (a send with a valid text; an
\* invalid text is refused with 400 before the group is looked at); such a
\* call appends no Message, changes nothing and returns no message and no
\* count.  And with handlers run to completion one at a time, every Message
\* a step appends has a sender who was a member of its group in the state
\* the step started from.
C25_MembersOnlyMessages ==
  /\ [](\A u \in Users, g \in MsgGroupIds \cup {MalformedGid} :
          (g \notin DOMAIN groups \/ u \notin Members(g))
          => /\ \A x \in Texts \X IVs : Refused(SendReq(u, g, x[1], x[2]))
             /\ \A s \in SinceChoices :
                   /\ Refused(ListReq(u, g, s[1], s[2]))
                   /\ Refused(PollReq(u, g, s[1], s[2])))
  /\ [][\A m \in Appended :
          m.group \in DOMAIN groups /\ m.sender \in Members(m.group)]_vars

\* C25 witness: a stored message whose sender has since left or been
\* banished, and who is now refused the group's messages.
C25_Witness ==
  \E i \in 1..Len(messages) :
     LET m == messages[i]
     IN /\ m.sender \notin Members(m.group)
        /\ \A rq \in MessageCalls(m.sender, m.group) : After(rq).db = Store
        /\ After(ListReq(m.sender, m.group, FALSE, 0)).rq.res.status = 403
        /\ After(ListReq(groups[m.group].owner, m.group, FALSE, 0)).rq.out # <<>>

\* The ids of the stored messages of group g later than since (all of them
\* when since is omitted)
Later(g, hasSince, since) ==
  {i \in 1..Len(messages) :
     messages[i].group = g /\ (hasSince => messages[i].createdAt > since)}

\* C26: list(groupId, caller, since) by a current member answers 200 with
\* exactly the messages of that group whose createdAt is strictly greater
\* than since (all of the group's messages when since is omitted), each
\* once, in ascending createdAt order, each with its sender, its createdAt
\* and the plaintext that was passed to send; it returns no message of any
\* other group.
C26_ListReturnsGroupMessages ==
  \A g \in DOMAIN groups : \A u \in Members(g) \cap Users : \A s \in SinceChoices :
     LET r == After(ListReq(u, g, s[1], s[2]))
         out == r.rq.out
     IN /\ r.rq.res.status = 200
        /\ r.db = Store
        /\ {out[k].id : k \in 1..Len(out)} = Later(g, s[1], s[2])
        /\ Len(out) = Cardinality(Later(g, s[1], s[2]))
        /\ \A k \in 1..(Len(out) - 1) : out[k].createdAt <= out[k + 1].createdAt
        /\ \A k \in 1..Len(out) :
              /\ out[k].text = plaintexts[out[k].id]
              /\ out[k].sender = messages[out[k].id].sender
              /\ out[k].createdAt = messages[out[k].id].createdAt
              /\ messages[out[k].id].group = g

\* C26 witness: each of the two groups holds a message; a member of one
\* group who did not send its message lists it with its plaintext, which is
\* not what the payload stores, and gets nothing with since set to that
\* message's createdAt.
C26_Witness ==
  \E g \in DOMAIN groups, h \in DOMAIN groups, u \in Users :
     /\ g # h
     /\ u \in Members(g)
     /\ Later(h, FALSE, 0) # {}
     /\ \E i \in Later(g, FALSE, 0) :
           /\ Later(g, FALSE, 0) = {i}
           /\ messages[i].sender # u
           /\ SubSeq(messages[i].payload, 3, Len(messages[i].payload)) # plaintexts[i]
           /\ After(ListReq(u, g, FALSE, 0)).rq.out =
                <<[id |-> i, sender |-> messages[i].sender,
                   createdAt |-> messages[i].createdAt, text |-> plaintexts[i]]>>
           /\ After(ListReq(u, g, TRUE, messages[i].createdAt)).rq.out = <<>>

\* newMessages of a poll by u on g with since = T, from store db
PollCount(db, u, g, T) == Run(db, PollReq(u, g, TRUE, T), now).rq.newMessages

\* C27: pollSince(groupId, caller, since) by a current member answers 200
\* with a count equal to the number of the group's messages with createdAt
\* strictly greater than since (since defaulting to 60 seconds, one minute,
\* before the call), which is the length of list with the same since, with
\* the time of the call as lastChecked and no message body, and changes no
\* stored state.  And a poll with since = T that returns 0 returns 1 after
\* exactly one send to the group with createdAt > T.
C27_PollCountsLaterMessages ==
  /\ [](\A g \in DOMAIN groups : \A u \in Members(g) \cap Users :
          \A s \in SinceChoices :
             LET r == After(PollReq(u, g, s[1], s[2]))
                 since == IF s[1] THEN s[2] ELSE now - 1
             IN /\ r.rq.res.status = 200
                /\ r.db = Store
                /\ r.rq.newMessages = Cardinality(Later(g, TRUE, since))
                /\ r.rq.newMessages = Len(After(ListReq(u, g, TRUE, since)).rq.out)
                /\ r.rq.lastChecked = now
                /\ r.rq.out = <<>>)
  /\ [][\A g \in DOMAIN groups : \A u \in Members(g) \cap Users : \A T \in Times :
          (/\ Len(messages') = Len(messages) + 1
           /\ messages'[Len(messages')].group = g
           /\ messages'[Len(messages')].createdAt > T
           /\ groups' = groups
           /\ now' = now
           /\ PollCount(Store, u, g, T) = 0)
          => PollCount(Store', u, g, T) = 1]_vars

\* C27 witness: a group holds a message created at time 0 and a later one;
\* a member's poll with since = 0 counts the later one only, and a poll
\* without since, more than a minute after both, counts none.
C27_Witness ==
  \E g \in DOMAIN groups : \E u \in Members(g) \cap Users :
     /\ \E i \in Later(g, FALSE, 0) : messages[i].createdAt = 0
     /\ Cardinality(Later(g, TRUE, 0)) = 1
     /\ PollCount(Store, u, g, 0) = 1
     /\ After(PollReq(u, g, FALSE, 0)).rq.newMessages = 0
     /\ After(PollReq(u, g, FALSE, 0)).rq.lastChecked = now

(***************************************************************************)
(* Owner-only operations (Spec).                                           *)
(***************************************************************************)
\* The JoinRequests of group g in store db, and the pending ones
RequestsOf(db, g) == {j \in db.joinRequests : j.group = g}
PendingOf(db, g) == {j \in RequestsOf(db, g) : j.status = "pending"}

\* From store db the call is answered with the status and changes nothing
AnsweredUnchanged(db, rq, status) ==
  LET r == Run(db, rq, now) IN r.rq.res.status = status /\ r.db = db

\* From store db, every owner-only call by u on g is answered 403 and
\* changes nothing, whatever its inputs, provided they pass the checks made
\* before the owner check: banishMember validates userId and
\* decideJoinRequest the decision before they load the group (the answer is
\* then 400, with no change); the other handlers check the owner first
Forbidden(db, u, g) ==
  /\ AnsweredUnchanged(db, ListRequestsReq(u, g), 403)
  /\ AnsweredUnchanged(db, DeleteReq(u, g), 403)
  /\ \A j \in RequestsOf(db, g), d \in Decisions :
        AnsweredUnchanged(db, DecideReq(u, j.id, d),
                          IF d \in {"approve", "decline"} THEN 403 ELSE 400)
  /\ \A s \in IdStrings :
        /\ AnsweredUnchanged(db, BanishReq(u, g, s),
                             IF isValidObjectId(s) THEN 403 ELSE 400)
        /\ AnsweredUnchanged(db, TransferReq(u, g, s), 403)
  /\ \A x \in MaxUsesChoices \X ExpiryChoices :
        AnsweredUnchanged(db, CreateInviteReq(u, g, x[1], x[2]), 403)

\* From store db the call is not answered 403
NotForbidden(db, rq) == Run(db, rq, now).rq.res.status # 403

\* From store db, no owner-only call by u on g is answered 403: u lists the
\* pending requests, declines each of them, approves each of them when the
\* group has room, and creates invites (with parameters createInviteSchema
\* accepts)
Allowed(db, u, g) ==
  /\ NotForbidden(db, DeleteReq(u, g))
  /\ \A s \in IdStrings :
        NotForbidden(db, BanishReq(u, g, s)) /\ NotForbidden(db, TransferReq(u, g, s))
  /\ \A j \in RequestsOf(db, g), d \in Decisions :
        NotForbidden(db, DecideReq(u, j.id, d))
  /\ LET r == Run(db, ListRequestsReq(u, g), now)
     IN r.rq.res.status = 200 /\ r.rq.requests = PendingOf(db, g)
  /\ \A j \in PendingOf(db, g) :
        /\ LET r == Run(db, DecideReq(u, j.id, "decline"), now)
           IN /\ r.rq.res.status = 200
              /\ [j EXCEPT !.status = "declined"] \in r.db.joinRequests
        /\ capacityOk(db.groups[g]) =>
              LET r == Run(db, DecideReq(u, j.id, "approve"), now)
              IN /\ r.rq.res.status = 200
                 /\ j.user \in Range(r.db.groups[g].members)
  /\ \A x \in MaxUsesChoices \X ExpiryChoices :
        Run(db, CreateInviteReq(u, g, x[1], x[2]), now).rq.res.status =
           IF x[1] >= 0 /\ x[2] > 0 THEN 201 ELSE 400

\* C28: the owner-only operations (listJoinRequests, decideJoinRequest,
\* banishMember, transferOwnership, deleteGroup, createInvite) are
\* authorised against the group's owner at call time.  In every state every
\* user other than the owner is answered 403 by each of them with no state
\* change, and the owner is allowed.  And a step that changes a group's
\* owner (a successful transferOwnership to another member) leaves the
\* JoinRequests as they were, and from the store it leaves the former owner
\* is forbidden and the new owner allowed, the requests pending before the
\* transfer being the ones the new owner lists and decides.
C28_OwnerAtCallTime ==
  /\ [](\A g \in DOMAIN groups :
          /\ \A u \in Users \ {Owner(g)} : Forbidden(Store, u, g)
          /\ Owner(g) \in Users => Allowed(Store, Owner(g), g))
  /\ [][\A g \in DOMAIN groups \cap DOMAIN groups' :
          groups'[g].owner # groups[g].owner
          => /\ joinRequests' = joinRequests
             /\ now' = now
             /\ Owner(g) \in Users => Forbidden(Store', Owner(g), g)
             /\ groups'[g].owner \in Users => Allowed(Store', groups'[g].owner, g)]_vars

\* C28 witness: ownership of a group has passed from its creator, who is
\* still a member, to another user, and a request is pending: the creator's
\* approval is answered 403, the new owner's succeeds.
C28_Witness ==
  \E g \in DOMAIN groups : \E j \in PendingOf(Store, g) :
     /\ Owner(g) \in Users \ Creators
     /\ Creators \subseteq Members(g)
     /\ \A former \in Creators :
           /\ Forbidden(Store, former, g)
           /\ After(DecideReq(former, j.id, "approve")).rq.res = Resp(403, "Only owner")
     /\ After(DecideReq(Owner(g), j.id, "approve")).rq.res.status = 200
     /\ After(ListRequestsReq(Owner(g), g)).rq.requests = {j}

\* Invite i after one more redemption
Consumed(i) ==
  [i EXCEPT !.uses = i.uses + 1, !.disabled = (i.uses + 1 >= i.maxUses)]

\* C29: redeemInvite with a valid invite (not disabled, unexpired, uses <
\* maxUses, its group existing) by a user who is already a member of the
\* invite's group and not banned: when the group is not at capacity it
\* answers 200, leaves members as they were (no second entry for the user),
\* increments the invite's uses by exactly 1 and sets disabled = true when
\* uses reaches maxUses, and changes nothing else; when the group is at
\* capacity it answers 400 'Group is full' and changes nothing.
C29_MemberRedeemConsumesInvite ==
  \A i \in invites : \A u \in Users :
     (Redeemable(i) /\ u \in Members(i.group) /\ u \notin Banned(i.group)) =>
        LET r == After(RedeemReq(u, TokenOf(i)))
        IN IF IsFull(groups[i.group])
           THEN r.rq.res = Resp(400, "Group is full") /\ r.db = Store
           ELSE /\ r.rq.res = Resp(200, "Joined via invite")
                /\ r.db = [Store EXCEPT !.invites = (@ \ {i}) \cup {Consumed(i)}]

\* C29 witness: a two-use invite has been redeemed once by the only member
\* the group has ever had, and is still redeemable: the member's next
\* redemption disables it and leaves members as they are.
C29_Witness ==
  \E i \in invites :
     /\ Redeemable(i)
     /\ i.uses = 1
     /\ Len(groups[i.group].members) = 1
     /\ groups[i.group].bannedUsers = <<>>
     /\ leaveHistory = <<>>
     /\ LET r == After(RedeemReq(Owner(i.group), TokenOf(i)))
        IN /\ r.rq.res.status = 200
           /\ r.db.groups = groups
           /\ \E k \in r.db.invites : k.uses = i.maxUses /\ k.disabled

\* The stored invite with the token hash of i, in store db
SameInvite(db, i) == {k \in db.invites : k.tokenHash = i.tokenHash}

\* maxUses >= 1, 0 <= uses <= maxUses, disabled exactly when uses >= maxUses
InviteOk(i) ==
  /\ i.maxUses >= 1
  /\ 0 <= i.uses /\ i.uses <= i.maxUses
  /\ i.disabled <=> (i.uses >= i.maxUses)

\* C30: in every state reached by calls that each run to completion before
\* the next starts, every invite has maxUses >= 1, 0 <= uses <= maxUses and
\* disabled = true exactly when uses >= maxUses.  createInvite stores a
\* requested maxUses of 0 as 1 and every new invite with uses = 0.  uses
\* equals the number of successful redemptions of the invite: a successful
\* redeemInvite increments the uses of its invite by exactly 1 and of no
\* other, a failed one leaves every invite as it was, and a step that
\* changes the uses of an invite is a successful redemption of it.
C30_InviteCounts ==
  /\ [](/\ \A i \in invites : InviteOk(i)
        /\ \A g \in OwnedGroups, x \in MaxUsesChoices \X ExpiryChoices :
              LET r == After(CreateInviteReq(Owner(g), g, x[1], x[2]))
              IN r.rq.res.status = 201 =>
                    \E k \in r.db.invites \ invites :
                       /\ r.db.invites = invites \cup {k}
                       /\ k.uses = 0
                       /\ k.maxUses = (IF x[1] = 0 THEN 1 ELSE x[1])
                       /\ InviteOk(k)
        /\ \A u \in Users, tok \in Tokens :
              LET r == After(RedeemReq(u, tok))
              IN IF r.rq.res.status = 200
                 THEN \E i \in invites :
                         /\ i.tokenHash = sha256(tok)
                         /\ r.db.invites = (invites \ {i}) \cup {Consumed(i)}
                 ELSE r.db.invites = invites)
  /\ [][\A i \in invites : \A k \in SameInvite(Store', i) :
          k.uses # i.uses =>
             /\ k.uses = i.uses + 1
             /\ \E u \in Users :
                   LET r == After(RedeemReq(u, TokenOf(i)))
                   IN r.rq.res.status = 200 /\ r.db = Store']_vars

\* C30 witness: a two-use invite has been redeemed twice and is disabled.
C30_Witness ==
  \E i \in invites :
     /\ i.maxUses = DefaultMaxUses + 1
     /\ i.uses = i.maxUses
     /\ i.disabled
     /\ \A u \in Users : After(RedeemReq(u, TokenOf(i))).rq.res.status = 400

(***************************************************************************)
(* Properties of concurrent requests, continued (ConcSpec).                *)
(***************************************************************************)
\* The calls in flight that have redeemed token tok successfully
Redeemed(tok) ==
  {i \in 1..Len(reqs) :
     reqs[i].op = "joinWithInvite" /\ reqs[i].token = tok /\ reqs[i].res.status = 200}

\* C31 (as claimed): once concurrent redeemInvite calls presenting the same
\* token have all completed, the number of them that succeeded is at most
\* the invite's maxUses and the stored uses equals that number (the invite
\* had uses = 0 when the first of them started).
C31_ConcurrentRedeemsCounted ==
  (/\ Len(reqs) >= 2
   /\ AllDone
   /\ \A i \in 1..Len(reqs) :
         reqs[i].op = "joinWithInvite" /\ reqs[i].token = reqs[1].token) =>
     \A i \in invites :
        i.tokenHash = sha256(reqs[1].token) =>
           /\ Cardinality(Redeemed(reqs[1].token)) <= i.maxUses
           /\ i.uses = Cardinality(Redeemed(reqs[1].token))

IsRemoval(rq) == rq.op \in {"leaveGroup", "banishMember"}

\* The user a leave or banish call would remove
Removed(rq) == IF rq.op = "banishMember" THEN CastObjectId(rq.userId) ELSE rq.user

\* C32 (as claimed): when a leave or banish of user X and a successful
\* joinOpen, redeemInvite or approve that admits a different user Y into the
\* same group have run concurrently and both have completed, Y is a member
\* of the group.
C32_NoLostMembershipUpdate ==
  (Len(reqs) = 2 /\ AllDone) =>
     \A i \in 1..2, j \in 1..2 :
        (/\ IsJoin(reqs[i]) /\ reqs[i].res.status = 200
         /\ IsRemoval(reqs[j])
         /\ reqs[i].gid = reqs[j].gid
         /\ Joiner(reqs[i]) # Removed(reqs[j])) =>
           Joiner(reqs[i]) \in Members(reqs[i].gid)

\* C33 (as claimed): when transferOwnership(newOwner = B) by the owner and a
\* leave by B or a banish of B have run concurrently and both have
\* completed, the group's owner is a member of the group.
C33_OwnerIsMemberAfterConcurrentTransfer ==
  (Len(reqs) = 2 /\ AllDone) =>
     \A i \in 1..2, j \in 1..2 :
        (/\ reqs[i].op = "transferOwnership"
         /\ IsRemoval(reqs[j])
         /\ reqs[i].gid = reqs[j].gid
         /\ Removed(reqs[j]) = CastObjectId(reqs[i].userId)) =>
           Owner(reqs[i].gid) \in Members(reqs[i].gid)

(***************************************************************************)
(* Cooldown and approval (RejoinSpec).                                     *)
(***************************************************************************)
\* User u left private group g less than COOLDOWN_HOURS ago and is not a
\* member of it
InCooldown(g, u) ==
  /\ g \in DOMAIN groups
  /\ groups[g].type = "private"
  /\ u \notin Members(g)
  /\ lastLeave(Store, g, u) # Null
  /\ cooldownActive(lastLeave(Store, g, u), now)

\* C34 (as claimed): decideRequest(approve) never makes a user a member of a
\* private group less than 48 hours after the user's most recent leave of
\* it: from every state, for every JoinRequest of a user in cooldown, an
\* approve of it by any caller leaves the user out of members.
C34_ApprovalRespectsCooldown ==
  \A j \in joinRequests :
     InCooldown(j.group, j.user) =>
        \A u \in Users :
           LET r == After(DecideReq(u, j.id, "approve"))
           IN j.user \notin Range(r.db.groups[j.group].members)

(***************************************************************************)
(* Properties of single calls, continued (Spec).                           *)
(***************************************************************************)
\* C35 (as claimed): in every state reached by complete calls, no current
\* member of a group has a JoinRequest in status pending for that group, and
\* the owner's listJoinRequests shows no current member.
C35_PendingExcludesMember ==
  /\ \A j \in joinRequests :
        (j.status = "pending" /\ j.group \in DOMAIN groups) =>
           j.user \notin Members(j.group)
  /\ \A g \in OwnedGroups :
        \A j \in After(ListRequestsReq(Owner(g), g)).rq.requests :
           j.user \notin Members(g)

\* Call rq, when it answers an error, leaves the store as it was; the one
\* exception is joinOpenGroup on an open group or requestJoinPrivate on a
\* private one by a caller banned from the group, which changes nothing but
\* the caller's JoinRequest and leaves it pending
FailsCleanly(rq) ==
  \A r \in {After(rq)} :
     r.rq.res.status >= 400 =>
        IF /\ rq.op \in {"joinOpenGroup", "requestJoinPrivate"}
           /\ rq.gid \in DOMAIN groups
           /\ rq = JoinAttempt(rq.user, rq.gid)
           /\ rq.user \in Banned(rq.gid)
        THEN /\ r.db = [Store EXCEPT !.joinRequests = r.db.joinRequests]
             /\ r.db.joinRequests \ RequestOf(r.db, rq.gid, rq.user) =
                   joinRequests \ RequestOf(Store, rq.gid, rq.user)
             /\ \A j \in RequestOf(r.db, rq.gid, rq.user) : j.status = "pending"
        ELSE r.db = Store

\* C36: from every state reached by complete calls, every membership
\* operation that answers an error (not found, forbidden, validation,
\* capacity, cooldown, conflict, invalid or expired invite) leaves every
\* Group, Invite, LeaveHistory and JoinRequest record unchanged, the single
\* exception being the upsert of the caller's pending JoinRequest by
\* joinOpen and requestJoinPrivate for a banned caller.
C36_FailedCallsChangeNothing ==
  [](/\ \A u \in Users, ty \in GroupTypes, cap \in Capacities, ids \in InitialIdLists :
           FailsCleanly(CreateGroupReq(u, ty, cap, ids))
     /\ \A u \in Users, g \in GroupIds :
           /\ FailsCleanly(JoinOpenReq(u, g))
           /\ FailsCleanly(RequestJoinReq(u, g))
           /\ FailsCleanly(ListRequestsReq(u, g))
           /\ FailsCleanly(LeaveReq(u, g))
           /\ FailsCleanly(DeleteReq(u, g))
           /\ \A s \in IdStrings :
                 /\ FailsCleanly(BanishReq(u, g, s))
                 /\ FailsCleanly(TransferReq(u, g, s))
           /\ \A m \in MaxUsesChoices, e \in ExpiryChoices :
                 FailsCleanly(CreateInviteReq(u, g, m, e))
     /\ \A u \in Users, rid \in RequestIds, d \in Decisions :
           FailsCleanly(DecideReq(u, rid, d))
     /\ \A u \in Users, tok \in Tokens :
           FailsCleanly(RedeemReq(u, tok)))

\* C36 witness: a group has a banned user with no JoinRequest and a
\* redeemable invite: the banned user's join attempt is answered 403 and
\* writes the pending request, while the same user's redemption is answered
\* 403, the user's leave 400 and a non-owner's banish 403, each changing
\* nothing.
C36_Witness ==
  \E g \in DOMAIN groups : \E b \in Banned(g) \cap Users : \E i \in invites :
     /\ Redeemable(i) /\ i.group = g
     /\ RequestOf(Store, g, b) = {}
     /\ LET r == After(JoinAttempt(b, g))
        IN /\ r.rq.res.status = 403
           /\ r.db # Store
           /\ RequestOf(r.db, g, b) # {}
     /\ AnsweredUnchanged(Store, RedeemReq(b, TokenOf(i)), 403)
     /\ AnsweredUnchanged(Store, LeaveReq(b, g), 400)
     /\ AnsweredUnchanged(Store, BanishReq(b, g, toString(Owner(g))), 403)

====
